---- MODULE Spec2Model ----
(***************************************************************************)
(* Model of the odoo-backup-service orchestrator: BackupManager            *)
(* (src/src/backup.rs) driving DockerManager (src/src/docker.rs) over a    *)
(* host backup directory.  Strings are sequences of one-character strings  *)
(* so that `contains`, `split('/')` and `format!` are computed, not        *)
(* assumed.  Every external command (docker ps / exec / cp, filesystem     *)
(* calls) is one step whose outcome is chosen by the environment.          *)
(***************************************************************************)
EXTENDS Integers, Sequences, FiniteSets, TLC

\* ------------------------------------------------------------------ bounds
MaxBackups == 2      \* targets backed up per behaviour (singly or in batches)
MaxCleanups == 2     \* calls of cleanup_old_backups per behaviour
MaxFiles == 2        \* entries initially present in the host backup root
MaxTick == 1         \* seconds between two readings of a clock that moves

\* --------------------------------------------------------------- constants
SecondsPerDay == 86400
Now0 == 1704110400   \* 2024-01-01 12:00:00 UTC, the clock at Init

\* ----------------------------------------------------------------- strings
\* str::contains: sub occurs in s as a contiguous run of characters.
Contains(s, sub) ==
    \E i \in 0..(Len(s) - Len(sub)) : SubSeq(s, i + 1, i + Len(sub)) = sub

SetMax(S) == CHOOSE m \in S : \A x \in S : x <= m

\* container_path.split('/').next_back(): the text after the last '/'.
LastSegment(s) ==
    LET slashes == {i \in 1..Len(s) : s[i] = "/"}
    IN  IF slashes = {} THEN s ELSE SubSeq(s, SetMax(slashes) + 1, Len(s))

DigitChars == <<"0", "1", "2", "3", "4", "5", "6", "7", "8", "9">>

Pad2(n) == <<DigitChars[((n \div 10) % 10) + 1], DigitChars[(n % 10) + 1]>>

Pad4(n) == Pad2(n \div 100) \o Pad2(n % 100)

\* chrono: civil date of a day number counted from 1970-01-01 (proleptic
\* Gregorian calendar), as <<year, month, day>>.
CivilFromDays(days) ==
    LET z   == days + 719468
        era == z \div 146097
        doe == z - era * 146097
        yoe == (doe - doe \div 1460 + doe \div 36524 - doe \div 146096) \div 365
        doy == doe - (365 * yoe + yoe \div 4 - yoe \div 100)
        mp  == (5 * doy + 2) \div 153
        d   == doy - (153 * mp + 2) \div 5 + 1
        m   == IF mp < 10 THEN mp + 3 ELSE mp - 9
        y   == yoe + era * 400 + (IF m <= 2 THEN 1 ELSE 0)
    IN  <<y, m, d>>

\* Variant of FormatTimestamp with the seconds left at 00.
FormatTimestamp_MinuteResolution(t) ==
    LET ymd == CivilFromDays(t \div SecondsPerDay)
        sod == t % SecondsPerDay
    IN  Pad4(ymd[1]) \o Pad2(ymd[2]) \o Pad2(ymd[3]) \o <<"_">>
        \o Pad2(sod \div 3600) \o Pad2((sod \div 60) % 60) \o Pad2(0)

\* chrono::Utc::now().format("%Y%m%d_%H%M%S") for the clock value t (seconds).
FormatTimestamp(t) ==
    LET ymd == CivilFromDays(t \div SecondsPerDay)
        sod == t % SecondsPerDay
    IN  Pad4(ymd[1]) \o Pad2(ymd[2]) \o Pad2(ymd[3]) \o <<"_">>
        \o Pad2(sod \div 3600) \o Pad2((sod \div 60) % 60) \o Pad2(sod % 60)

\* format!("backup_{}_{}.{}", database_name, timestamp, backup_format)
BackupFilename(database_name, timestamp, backup_format) ==
    <<"b", "a", "c", "k", "u", "p", "_">> \o database_name \o <<"_">>
    \o timestamp \o <<".">> \o backup_format

\* format!("{}/{}", dir, filename)
JoinPath(dir, filename) == dir \o <<"/">> \o filename

\* ----------------------------------------------------------------- targets
\* DatabaseConfig values handed to the orchestrator.
TargetA ==
    [name |-> <<"A">>, database_name |-> <<"d", "b">>, url |-> <<"u">>,
     container_name |-> <<"c", "1">>, master_password |-> <<"p">>,
     backup_format |-> <<"z", "i", "p">>,
     output_path |-> <<"/", "t">>, retention_days |-> 0]

TargetB ==
    [name |-> <<"B">>, database_name |-> <<"d", "b", "2">>, url |-> <<"u">>,
     container_name |-> <<"c", "2">>, master_password |-> <<"p">>,
     backup_format |-> <<"d", "u", "m", "p">>,
     output_path |-> <<"/", "t">>, retention_days |-> 1]

DatabaseConfig == {TargetA, TargetB}

\* The target lists a caller may pass: every list of at most n targets.
TargetLists(n) ==
    UNION {[1..k -> DatabaseConfig] : k \in 0..n}

\* Sets of container names the runtime may have running.
RunningSets ==
    {{}, {<<"c", "2">>}, {<<"c", "1">>, <<"c", "2">>}, {<<"c", "1", "2">>}}

\* host_backup_dir of the BackupManager.
HostBackupDir == <<"/", "h">>

\* ------------------------------------------------------------------ errors
\* BackupError variants with their message prefix (src/src/error.rs).
DockerError(msg) == [kind |-> "Docker", msg |-> msg]

FileSystemError(msg) == [kind |-> "FileSystem", msg |-> msg]

\* Display of a BackupError (thiserror #[error(...)] attributes).
Display(e) ==
    IF e.kind = "Docker" THEN <<"Docker error: ", e.msg>>
    ELSE IF e.kind = "FileSystem" THEN <<"File system error: ", e.msg>>
    ELSE <<"Configuration error: ", e.msg>>

Ok(v) == [ok |-> TRUE, val |-> v]

Err(e) == [ok |-> FALSE, err |-> e]

\* Outcome of spawning an external command (std::process::Command::output):
\* the process cannot be started, it exits non-zero, or it exits zero.
CommandOutcomes == {"spawn_err", "fail", "ok"}


\* ------------------------------------------------------------------- state
VARIABLES
    pc,                    \* position of the single flow of control
    op,                    \* the BackupManager method being (or last) called
    n_backups,             \* targets whose backup has been requested so far
    n_cleanups,            \* cleanup_old_backups calls so far
    now,                   \* the wall clock, seconds since the epoch
    running,               \* environment: names of the running containers
    tick,                  \* environment: seconds between two clock readings
    host_dir_exists,       \* Path::new(host_backup_dir).exists()
    host_files,            \* direct entries of the host backup root
    host_files_before,     \* host_files when the current call was made
    configs,               \* backup_all_databases: the target list
    idx,                   \* backup_all_databases: position in configs
    config,                \* the target of the running backup or cleanup
    container_backup_path, \* backup_database: path returned by execute_backup
    host_backup_path,      \* backup_database: path returned by the copy
    bd_result,             \* value returned by the last backup_database
    results,               \* backup_all_databases: (name, path) successes
    errors,                \* backup_all_databases: failure messages
    ret,                   \* value returned by the last top-level call
    log,                   \* external calls issued by the current call
    cutoff_date,           \* cleanup_old_backups: Utc::now() - retention
    deleted_count,         \* cleanup_old_backups: files deleted so far
    entries,               \* cleanup_old_backups: entries not yet visited
    list_filter,           \* list_backups: its database_name argument
    prev_cleanup,          \* the successful cleanup directly before this one
    cli,                   \* main: the parsed command line of the process
    config_file,           \* main: what the file at cli.config holds
    run_config,            \* run: config.databases once loaded
    run_idx,               \* run: targets visited by the clean-all loop
    total_deleted,         \* run: total_deleted of the clean-all loop
    run_result             \* main: the value run returned

envVars == <<running, tick>>

clockVars == <<now, running, tick>>

hostVars == <<host_dir_exists, host_files>>

budgetVars == <<n_backups, n_cleanups>>

batchVars == <<configs, idx, results, errors>>

cleanupVars == <<cutoff_date, deleted_count, entries>>

\* What only the command layer (main, run) touches.
runVars ==
    <<cli, config_file, run_config, run_idx, total_deleted, run_result>>

\* What only the start of a top-level call sets.
callVars == <<list_filter, prev_cleanup, runVars>>

\* What no step of a backup touches.
stepFrame ==
    <<op, budgetVars, batchVars, config, ret, cleanupVars, host_files_before,
      callVars>>

vars == <<pc, op, n_backups, n_cleanups, now, running, tick, host_dir_exists,
          host_files, host_files_before, configs, idx, config, container_backup_path,
          host_backup_path, bd_result, results, errors, ret, log,
          cutoff_date, deleted_count, entries, list_filter, prev_cleanup,
          cli, config_file, run_config, run_idx, total_deleted, run_result>>

\* Placeholders for locals that hold no value.
NoResult == [none |-> TRUE]

\* Option<&str>
None == [some |-> FALSE]

Some(v) == [some |-> TRUE, val |-> v]

NoConfig == [none |-> TRUE]

NoPath == <<>>

\* One issued step of a backup: which step, for which position of the batch
\* (0 in a single backup), against which container, on which path, and how
\* it ended.
LogEntry(step, path, res) ==
    [step |-> step, idx |-> idx, container |-> config.container_name,
     path |-> path, res |-> res]

\* A direct entry of the host backup root.
HostEntry(name, is_file, mtime) ==
    [name |-> name, is_file |-> is_file, mtime |-> mtime]


\* The BackupManager is driven directly, by no process of the command line.
NoProcess ==
    /\ cli = NoResult
    /\ config_file = NoResult
    /\ run_config = <<>>
    /\ run_idx = 0
    /\ total_deleted = 0
    /\ run_result = NoResult


\* ----------------------------------------------------------- initial state
\* Names of entries that may lie in the host root before the first call: an
\* artifact of each target written a day earlier, an unrelated file, and a
\* directory whose name is a subject identifier.
InitFileNames ==
    {BackupFilename(t.database_name, FormatTimestamp(Now0 - SecondsPerDay),
                    t.backup_format) : t \in DatabaseConfig}
    \cup {<<"d", "x">>}

InitDirNames == {<<"d", "b">>}

\* Modification times around the cutoff of a retention window of one day: a
\* second before the cutoff of a cleanup that reads the clock at Now0, at that
\* cutoff, and at the cutoff of a cleanup that reads the clock a tick later.
InitMtimes ==
    {Now0 - SecondsPerDay - 1, Now0 - SecondsPerDay,
     Now0 - SecondsPerDay + MaxTick}

InitEntries ==
    {HostEntry(n, TRUE, m) : n \in InitFileNames, m \in InitMtimes}
    \cup {HostEntry(n, FALSE, Now0 - SecondsPerDay - 1) : n \in InitDirNames}

\* A directory holds at most one entry of a given name.
UniqueNames(S) == \A e1, e2 \in S : e1.name = e2.name => e1 = e2

InitHostFiles ==
    {S \in SUBSET InitEntries : Cardinality(S) <= MaxFiles /\ UniqueNames(S)}

\* BackupManager::new on a fresh host: no call made yet, the host root does
\* not exist.  MaxBackups targets may be backed up and one cleanup requested.
Init ==
    /\ pc = "idle"
    /\ op = "none"
    /\ n_backups = 0
    /\ n_cleanups = MaxCleanups - 1
    /\ now = Now0
    /\ running \in RunningSets
    /\ tick \in {0, MaxTick}
    /\ host_dir_exists = FALSE
    /\ host_files = {}
    /\ host_files_before = host_files
    /\ configs = <<>>
    /\ idx = 0
    /\ config = NoConfig
    /\ container_backup_path = NoPath
    /\ host_backup_path = NoPath
    /\ bd_result = NoResult
    /\ results = <<>>
    /\ errors = <<>>
    /\ ret = NoResult
    /\ log = <<>>
    /\ cutoff_date = 0
    /\ deleted_count = 0
    /\ entries = {}
    /\ list_filter = None
    /\ prev_cleanup = NoResult
    /\ NoProcess

\* Locals of a fresh top-level call.
ResetLocals ==
    /\ container_backup_path' = NoPath
    /\ host_backup_path' = NoPath
    /\ bd_result' = NoResult
    /\ results' = <<>>
    /\ errors' = <<>>
    /\ ret' = NoResult
    /\ log' = <<>>
    /\ cutoff_date' = 0
    /\ deleted_count' = 0
    /\ entries' = {}
    /\ host_files_before' = host_files
    /\ list_filter' = None
    /\ prev_cleanup' = NoResult

\* ------------------------------------------------ backup_database (single)
\* A caller invokes backup_database(config) for one target.
CallBackupDatabase ==
    /\ pc = "idle"
    /\ n_backups < MaxBackups
    /\ \E c \in DatabaseConfig :
        /\ config' = c
        /\ configs' = <<>>
        /\ idx' = 0
    /\ op' = "backup_database"
    /\ n_backups' = n_backups + 1
    /\ pc' = "bd_ensure"
    /\ ResetLocals
    /\ UNCHANGED <<n_cleanups, clockVars, hostVars, runVars>>

\* backup_database returns r right after the step recorded by entry: `?` on
\* a failed step, or Ok at the end.  The return is recorded too.
BackupDatabaseReturns(entry, r) ==
    /\ bd_result' = r
    /\ log' = log \o <<entry,
                      LogEntry("return", IF r.ok THEN r.val ELSE NoPath,
                               IF r.ok THEN "ok" ELSE r.err.kind)>>
    /\ pc' = "bd_ret"

\* The step recorded by entry succeeded and control moves on to next.
StepContinues(entry, next) ==
    /\ log' = Append(log, entry)
    /\ pc' = next
    /\ UNCHANGED bd_result

\* Variant of EnsureBackupDirectory that creates the root without testing
\* that it exists, so that creating fails on a root that is there.
EnsureBackupDirectory_NoExistsTest ==
    /\ pc = "bd_ensure"
    /\ \/ /\ ~host_dir_exists
          /\ StepContinues(LogEntry("ensure_dir", HostBackupDir, "ok"), "eb_ps")
          /\ host_dir_exists' = TRUE
          /\ UNCHANGED host_files
       \/ /\ BackupDatabaseReturns(
                 LogEntry("ensure_dir", HostBackupDir, "err"),
                 Err(FileSystemError("Failed to create backup directory")))
          /\ UNCHANGED hostVars
    /\ UNCHANGED <<clockVars, container_backup_path, host_backup_path,
                   stepFrame>>

\* self.ensure_backup_directory().await?
EnsureBackupDirectory ==
    /\ pc = "bd_ensure"
    /\ \/ /\ host_dir_exists
          /\ StepContinues(LogEntry("ensure_dir", HostBackupDir, "ok"), "eb_ps")
          /\ UNCHANGED hostVars
       \/ /\ ~host_dir_exists
          /\ StepContinues(LogEntry("ensure_dir", HostBackupDir, "ok"), "eb_ps")
          /\ host_dir_exists' = TRUE
          /\ UNCHANGED host_files
       \/ /\ ~host_dir_exists
          /\ BackupDatabaseReturns(
                 LogEntry("ensure_dir", HostBackupDir, "err"),
                 Err(FileSystemError("Failed to create backup directory")))
          /\ UNCHANGED hostVars
    /\ UNCHANGED <<clockVars, container_backup_path, host_backup_path,
                   stepFrame>>

\* ------------------------------------------------------------ DockerManager
\* stdout of `docker ps --filter name=<filter> --format {{.Names}}`: one line
\* per running container whose name matches the filter.
RECURSIVE JoinLines(_)
JoinLines(names) ==
    IF names = {} THEN <<>>
    ELSE LET n == CHOOSE x \in names : TRUE
         IN  n \o <<"\n">> \o JoinLines(names \ {n})

PsStdout(rs, filter) == JoinLines({n \in rs : Contains(n, filter)})

\* is_container_running, on a successful query: stdout contains the name.
IsContainerRunning(rs, container_name) ==
    Contains(PsStdout(rs, container_name), container_name)

\* Variant of ExecuteBackupCheckRunning that goes on although the query found
\* no running container.
ExecuteBackupCheckRunning_IgnoreStopped ==
    /\ pc = "eb_ps"
    /\ \E o \in CommandOutcomes :
        \/ /\ o # "ok"
           /\ BackupDatabaseReturns(LogEntry("ps", NoPath, o),
                  Err(DockerError("Docker command failed")))
           /\ UNCHANGED <<now, container_backup_path>>
        \/ /\ o = "ok"
           /\ StepContinues(
                  LogEntry("ps", NoPath,
                      IF IsContainerRunning(running, config.container_name)
                      THEN "ok" ELSE "not_running"),
                  "eb_mkdir")
           /\ now' = now + tick
           /\ container_backup_path' =
                  JoinPath(config.output_path,
                      BackupFilename(config.database_name,
                          FormatTimestamp(now + tick), config.backup_format))
    /\ UNCHANGED <<envVars, hostVars, host_backup_path, stepFrame>>

\* Variant of ExecuteBackupCheckRunning in which a query that failed counts
\* as a container that is not running.
ExecuteBackupCheckRunning_FailureIsStopped ==
    /\ pc = "eb_ps"
    /\ \E o \in CommandOutcomes :
        \/ /\ o # "ok"
           /\ BackupDatabaseReturns(LogEntry("ps", NoPath, o),
                  Err(DockerError("Container is not running")))
           /\ UNCHANGED <<now, container_backup_path>>
        \/ /\ o = "ok"
           /\ ~IsContainerRunning(running, config.container_name)
           /\ BackupDatabaseReturns(LogEntry("ps", NoPath, "not_running"),
                  Err(DockerError("Container is not running")))
           /\ UNCHANGED <<now, container_backup_path>>
        \/ /\ o = "ok"
           /\ IsContainerRunning(running, config.container_name)
           /\ StepContinues(LogEntry("ps", NoPath, o), "eb_mkdir")
           /\ now' = now + tick
           /\ container_backup_path' =
                  JoinPath(config.output_path,
                      BackupFilename(config.database_name,
                          FormatTimestamp(now + tick), config.backup_format))
    /\ UNCHANGED <<envVars, hostVars, host_backup_path, stepFrame>>

\* execute_backup: is_container_running(&config.container_name).await? and,
\* when it is running, the timestamped artifact path (lines 43-56).
ExecuteBackupCheckRunning ==
    /\ pc = "eb_ps"
    /\ \E o \in CommandOutcomes :
        \/ /\ o = "spawn_err"
           /\ BackupDatabaseReturns(LogEntry("ps", NoPath, o),
                  Err(DockerError("Failed to check container status")))
           /\ UNCHANGED <<now, container_backup_path>>
        \/ /\ o = "fail"
           /\ BackupDatabaseReturns(LogEntry("ps", NoPath, o),
                  Err(DockerError("Docker command failed")))
           /\ UNCHANGED <<now, container_backup_path>>
        \/ /\ o = "ok"
           /\ ~IsContainerRunning(running, config.container_name)
           /\ BackupDatabaseReturns(LogEntry("ps", NoPath, "not_running"),
                  Err(DockerError("Container is not running")))
           /\ UNCHANGED <<now, container_backup_path>>
        \/ /\ o = "ok"
           /\ IsContainerRunning(running, config.container_name)
           /\ StepContinues(LogEntry("ps", NoPath, o), "eb_mkdir")
           /\ now' = now + tick
           /\ container_backup_path' =
                  JoinPath(config.output_path,
                      BackupFilename(config.database_name,
                          FormatTimestamp(now + tick), config.backup_format))
    /\ UNCHANGED <<envVars, hostVars, host_backup_path, stepFrame>>

\* Variant of DockerExecStep that goes on after a bad exit status.
DockerExecStep_ContinueOnFail(here, step, path, spawn_msg, fail_msg, next) ==
    /\ pc = here
    /\ \E o \in CommandOutcomes :
        LET entry == LogEntry(step, path, o)
        IN  \/ /\ o = "spawn_err"
               /\ BackupDatabaseReturns(entry, Err(DockerError(spawn_msg)))
            \/ /\ o \in {"fail", "ok"}
               /\ StepContinues(entry, next)
    /\ UNCHANGED <<clockVars, hostVars, container_backup_path,
                   host_backup_path, stepFrame>>

\* Variant of DockerExecStep that issues the command a second time after a
\* first bad exit status.
DockerExecStep_RetryOnce(here, step, path, spawn_msg, fail_msg, next) ==
    /\ pc = here
    /\ \E o \in CommandOutcomes :
        LET entry == LogEntry(step, path, o)
            first == \A k \in DOMAIN log :
                         ~(log[k].idx = idx /\ log[k].step = step)
        IN  \/ /\ o = "spawn_err"
               /\ BackupDatabaseReturns(entry, Err(DockerError(spawn_msg)))
            \/ /\ o = "fail"
               /\ first
               /\ StepContinues(entry, here)
            \/ /\ o = "fail"
               /\ ~first
               /\ BackupDatabaseReturns(entry, Err(DockerError(fail_msg)))
            \/ /\ o = "ok"
               /\ StepContinues(entry, next)
    /\ UNCHANGED <<clockVars, hostVars, container_backup_path,
                   host_backup_path, stepFrame>>

\* A `docker exec` step of execute_backup: on any failure execute_backup, and
\* with it backup_database, returns a Docker error; on success control moves on.
DockerExecStep(here, step, path, spawn_msg, fail_msg, next) ==
    /\ pc = here
    /\ \E o \in CommandOutcomes :
        LET entry == LogEntry(step, path, o)
        IN  \/ /\ o = "spawn_err"
               /\ BackupDatabaseReturns(entry, Err(DockerError(spawn_msg)))
            \/ /\ o = "fail"
               /\ BackupDatabaseReturns(entry, Err(DockerError(fail_msg)))
            \/ /\ o = "ok"
               /\ StepContinues(entry, next)
    /\ UNCHANGED <<clockVars, hostVars, container_backup_path,
                   host_backup_path, stepFrame>>

\* docker exec <container> sh -c "mkdir -p <output_path>" (lines 58-73)
ExecuteBackupMkdir ==
    DockerExecStep("eb_mkdir", "mkdir", config.output_path,
                   "Failed to create backup directory",
                   "Failed to create backup directory", "eb_curl")

\* Variant of ExecuteBackupCurl after which execute_backup returns the path
\* without testing that the file exists.
ExecuteBackupCurl_SkipVerify ==
    DockerExecStep("eb_curl", "curl", container_backup_path,
                   "Failed to execute backup command",
                   "Backup command failed", "bd_copy")

\* docker exec <container> sh -c "curl -X POST ... -o <path>" (lines 75-103)
ExecuteBackupCurl ==
    DockerExecStep("eb_curl", "curl", container_backup_path,
                   "Failed to execute backup command",
                   "Backup command failed", "eb_test")

\* Variant of ExecuteBackupTestFile that, in a batch, starts the next target
\* as soon as the artifact of the current one is known to exist.
ExecuteBackupTestFile_StartNextEarly ==
    /\ pc = "eb_test"
    /\ \E o \in CommandOutcomes :
        LET entry == LogEntry("test", container_backup_path, o)
        IN  \/ /\ o = "spawn_err"
               /\ BackupDatabaseReturns(entry,
                      Err(DockerError("Failed to check backup file")))
               /\ UNCHANGED <<idx, config>>
            \/ /\ o = "fail"
               /\ BackupDatabaseReturns(entry,
                      Err(DockerError("Backup file was not created")))
               /\ UNCHANGED <<idx, config>>
            \/ /\ o = "ok"
               /\ idx < Len(configs)
               /\ log' = Append(log, entry)
               /\ idx' = idx + 1
               /\ config' = configs[idx + 1]
               /\ pc' = "bd_ensure"
               /\ UNCHANGED bd_result
            \/ /\ o = "ok"
               /\ ~(idx < Len(configs))
               /\ StepContinues(entry, "bd_copy")
               /\ UNCHANGED <<idx, config>>
    /\ UNCHANGED <<clockVars, hostVars, container_backup_path,
                   host_backup_path, op, budgetVars, configs, results, errors,
                   ret, cleanupVars, host_files_before, callVars>>

\* docker exec <container> sh -c "test -f <path>" (lines 105-120); on success
\* execute_backup returns Ok(container_backup_path).
ExecuteBackupTestFile ==
    DockerExecStep("eb_test", "test", container_backup_path,
                   "Failed to check backup file",
                   "Backup file was not created", "bd_copy")

\* Variant of HostFilesAfterCopy that keeps only the newest artifact.
HostFilesAfterCopy_Rotate(files, name, mtime) ==
    {HostEntry(name, TRUE, mtime)}

\* Host root after `docker cp <container>:<path> <host_path>` succeeded: the
\* file is created, or replaces a file of the same name; copied onto the name
\* of an existing directory it lands inside that directory.
HostFilesAfterCopy(files, name, mtime) ==
    IF \E e \in files : e.name = name /\ ~e.is_file
    THEN files
    ELSE {e \in files : e.name # name} \cup {HostEntry(name, TRUE, mtime)}

\* format!("{}/{}", host_path, container_path.split('/').next_back())
HostBackupPath(host_path, container_path) ==
    JoinPath(host_path, LastSegment(container_path))

\* Variant of CopyBackupToHost after which backup_database returns the host
\* path without the remote removal.
CopyBackupToHost_SkipCleanup ==
    /\ pc = "bd_copy"
    /\ \E o \in CommandOutcomes :
        LET path  == HostBackupPath(HostBackupDir, container_backup_path)
            entry == LogEntry("cp", path, o)
        IN  \/ /\ o # "ok"
               /\ BackupDatabaseReturns(entry,
                      Err(DockerError("Failed to copy backup")))
               /\ UNCHANGED <<host_files, host_backup_path>>
            \/ /\ o = "ok"
               /\ BackupDatabaseReturns(entry, Ok(path))
               /\ host_files' = HostFilesAfterCopy(host_files,
                                    LastSegment(container_backup_path), now)
               /\ host_backup_path' = path
    /\ UNCHANGED <<clockVars, host_dir_exists, container_backup_path,
                   stepFrame>>

\* Variant of CopyBackupToHost that hands the host path on although docker cp
\* ended with a bad exit status.
CopyBackupToHost_IgnoreFailure ==
    /\ pc = "bd_copy"
    /\ \E o \in CommandOutcomes :
        LET path  == HostBackupPath(HostBackupDir, container_backup_path)
            entry == LogEntry("cp", path, o)
        IN  \/ /\ o = "spawn_err"
               /\ BackupDatabaseReturns(entry,
                      Err(DockerError("Failed to copy backup file")))
               /\ UNCHANGED <<host_files, host_backup_path>>
            \/ /\ o = "fail"
               /\ StepContinues(entry, "bd_cleanup")
               /\ host_backup_path' = path
               /\ UNCHANGED host_files
            \/ /\ o = "ok"
               /\ StepContinues(entry, "bd_cleanup")
               /\ host_files' = HostFilesAfterCopy(host_files,
                                    LastSegment(container_backup_path), now)
               /\ host_backup_path' = path
    /\ UNCHANGED <<clockVars, host_dir_exists, container_backup_path,
                   stepFrame>>

\* copy_backup_to_host(config, &container_backup_path, &host_backup_dir)
CopyBackupToHost ==
    /\ pc = "bd_copy"
    /\ \E o \in CommandOutcomes :
        LET path  == HostBackupPath(HostBackupDir, container_backup_path)
            entry == LogEntry("cp", path, o)
        IN  \/ /\ o = "spawn_err"
               /\ BackupDatabaseReturns(entry,
                      Err(DockerError("Failed to copy backup file")))
               /\ UNCHANGED <<host_files, host_backup_path>>
            \/ /\ o = "fail"
               /\ BackupDatabaseReturns(entry,
                      Err(DockerError("Failed to copy backup")))
               /\ UNCHANGED <<host_files, host_backup_path>>
            \/ /\ o = "ok"
               /\ StepContinues(entry, "bd_cleanup")
               /\ host_files' = HostFilesAfterCopy(host_files,
                                    LastSegment(container_backup_path), now)
               /\ host_backup_path' = path
    /\ UNCHANGED <<clockVars, host_dir_exists, container_backup_path,
                   stepFrame>>

\* Result of cleanup_container_backup for the outcome o of `docker exec
\* <container> rm -f <path>`: `?` on the spawn, a warning on a bad status.
CleanupContainerBackupResult(o) ==
    IF o = "spawn_err"
    THEN Err(DockerError("Failed to cleanup backup file"))
    ELSE Ok("unit")

\* cleanup_container_backup(config, &container_backup_path).await? followed
\* by Ok(host_backup_path) (backup.rs lines 36-46).
CleanupContainerBackup ==
    /\ pc = "bd_cleanup"
    /\ \E o \in CommandOutcomes :
        LET entry == LogEntry("rm", container_backup_path, o)
        IN  IF CleanupContainerBackupResult(o).ok
            THEN BackupDatabaseReturns(entry, Ok(host_backup_path))
            ELSE BackupDatabaseReturns(entry, CleanupContainerBackupResult(o))
    /\ UNCHANGED <<clockVars, hostVars, container_backup_path,
                   host_backup_path, stepFrame>>

\* The single backup_database call hands its result to the caller.
ReturnBackupDatabase ==
    /\ pc = "bd_ret"
    /\ op = "backup_database"
    /\ ret' = bd_result
    /\ pc' = "idle"
    /\ UNCHANGED <<op, budgetVars, clockVars, hostVars, batchVars, config,
                   container_backup_path, host_backup_path, bd_result, log,
                   cleanupVars, host_files_before,
                   callVars>>

\* ----------------------------------------------------- backup_all_databases
\* A caller invokes backup_all_databases(configs).
CallBackupAllDatabases ==
    /\ pc = "idle"
    /\ n_backups < MaxBackups
    /\ \E cs \in TargetLists(MaxBackups - n_backups) :
        /\ configs' = cs
        /\ n_backups' = n_backups + Len(cs)
    /\ idx' = 0
    /\ config' = NoConfig
    /\ op' = "backup_all_databases"
    /\ pc' = "ba_loop"
    /\ ResetLocals
    /\ UNCHANGED <<n_cleanups, clockVars, hostVars, runVars>>

\* Variant of FailureMessage that leaves the target's name out.
FailureMessage_NoName(name, e) == <<"Failed to backup ", ": ">> \o Display(e)

\* format!("Failed to backup {}: {}", config.name, e)
FailureMessage(name, e) == <<"Failed to backup ", name, ": ">> \o Display(e)

\* Variant of BackupAllReturnValue that is an error when no target of a
\* non-empty failure list succeeded.
BackupAllReturnValue_FailWhenNoneSucceeded(res, errs) ==
    IF res = <<>> /\ errs # <<>>
    THEN Err(DockerError("All backups failed"))
    ELSE Ok(res)

\* The value backup_all_databases returns (line 73).
BackupAllReturnValue(res, errs) == Ok(res)

\* Variant of BackupAllNext that leaves the loop at the first failure.
BackupAllNext_StopOnFailure ==
    /\ pc = "ba_loop"
    /\ IF idx < Len(configs) /\ errors = <<>>
       THEN /\ idx' = idx + 1
            /\ config' = configs[idx + 1]
            /\ container_backup_path' = NoPath
            /\ host_backup_path' = NoPath
            /\ pc' = "bd_ensure"
            /\ UNCHANGED ret
       ELSE /\ ret' = Ok(results)
            /\ pc' = "idle"
            /\ UNCHANGED <<idx, config, container_backup_path,
                           host_backup_path>>
    /\ UNCHANGED <<op, budgetVars, clockVars, hostVars, configs, results,
                   errors, bd_result, log, cleanupVars, host_files_before,
                   callVars>>

\* `for config in configs`: take the next target and start its backup, or
\* leave the loop and return (lines 56, 69-73).
BackupAllNext ==
    /\ pc = "ba_loop"
    /\ IF idx < Len(configs)
       THEN /\ idx' = idx + 1
            /\ config' = configs[idx + 1]
            /\ container_backup_path' = NoPath
            /\ host_backup_path' = NoPath
            /\ pc' = "bd_ensure"
            /\ UNCHANGED ret
       ELSE /\ ret' = BackupAllReturnValue(results, errors)
            /\ pc' = "idle"
            /\ UNCHANGED <<idx, config, container_backup_path,
                           host_backup_path>>
    /\ UNCHANGED <<op, budgetVars, clockVars, hostVars, configs, results,
                   errors, bd_result, log, cleanupVars, host_files_before,
                   callVars>>

\* Variant of BackupAllCollect that puts a success in front of the list.
BackupAllCollect_Prepend ==
    /\ pc = "bd_ret"
    /\ op = "backup_all_databases"
    /\ IF bd_result.ok
       THEN /\ results' = <<<<config.name, bd_result.val>>>> \o results
            /\ UNCHANGED errors
       ELSE /\ errors' = Append(errors,
                               FailureMessage(config.name, bd_result.err))
            /\ UNCHANGED results
    /\ pc' = "ba_loop"
    /\ UNCHANGED <<op, budgetVars, clockVars, hostVars, configs, idx, config,
                   container_backup_path, host_backup_path, bd_result, ret,
                   log, cleanupVars, host_files_before,
                   callVars>>

\* The match on the result of backup_database(config) (lines 57-66).
BackupAllCollect ==
    /\ pc = "bd_ret"
    /\ op = "backup_all_databases"
    /\ IF bd_result.ok
       THEN /\ results' = Append(results, <<config.name, bd_result.val>>)
            /\ UNCHANGED errors
       ELSE /\ errors' = Append(errors,
                               FailureMessage(config.name, bd_result.err))
            /\ UNCHANGED results
    /\ pc' = "ba_loop"
    /\ UNCHANGED <<op, budgetVars, clockVars, hostVars, configs, idx, config,
                   container_backup_path, host_backup_path, bd_result, ret,
                   log, cleanupVars, host_files_before,
                   callVars>>

\* ------------------------------------------------------ cleanup_old_backups
\* Utc::now() - Duration::days(retention_days) for the clock value t.
CutoffDate(t, retention_days) == t - retention_days * SecondsPerDay

\* Variant of IsBackupOf that takes only the files named backup_<subject>_...
IsBackupOf_ExactSubject(e, database_name) ==
    LET prefix == <<"b", "a", "c", "k", "u", "p", "_">> \o database_name
                  \o <<"_">>
    IN  /\ e.is_file
        /\ Len(e.name) >= Len(prefix)
        /\ SubSeq(e.name, 1, Len(prefix)) = prefix

\* Variant of IsBackupOf that takes every regular file.
IsBackupOf_AnyFile(e, database_name) == e.is_file

\* path.is_file() && filename.contains(&config.database_name)
IsBackupOf(e, database_name) ==
    e.is_file /\ Contains(e.name, database_name)

\* Variant of IsExpired that keeps a file for a minute past the cutoff.
IsExpired_MinuteSlack(e, cutoff) == e.mtime + 60 < cutoff

\* Variant of IsExpired that also takes a file modified exactly at the cutoff.
IsExpired_Inclusive(e, cutoff) == e.mtime <= cutoff

\* modified_datetime < cutoff_date
IsExpired(e, cutoff) == e.mtime < cutoff

\* What can go wrong while one entry is visited, besides nothing.
EntryOutcomes == {"ok", "entry_err", "metadata_err", "mtime_err", "remove_err"}

\* Variant of CleanupReturns that reports a failed cleanup as nothing deleted.
CleanupReturns_SwallowError(r) ==
    /\ ret' = IF r.ok THEN r ELSE Ok(0)
    /\ pc' = "idle"

\* cleanup_old_backups returns r.
CleanupReturns(r) ==
    /\ ret' = r
    /\ pc' = "idle"

\* What a cleanup call keeps of the call that returned just before it: when
\* that was a cleanup that succeeded, its target and its cutoff.
PrevCleanup ==
    IF op = "cleanup_old_backups" /\ ret.ok
    THEN [config |-> config, cutoff_date |-> cutoff_date]
    ELSE NoResult

\* Variant of CallCleanupOldBackups that reads the root without testing that
\* it exists.
CallCleanupOldBackups_NoExistsTest ==
    /\ pc = "idle"
    /\ n_cleanups < MaxCleanups
    /\ n_cleanups' = n_cleanups + 1
    /\ op' = "cleanup_old_backups"
    /\ \E c \in DatabaseConfig : config' = c
    /\ configs' = <<>>
    /\ idx' = 0
    /\ container_backup_path' = NoPath
    /\ host_backup_path' = NoPath
    /\ bd_result' = NoResult
    /\ results' = <<>>
    /\ errors' = <<>>
    /\ log' = <<>>
    /\ deleted_count' = 0
    /\ host_files_before' = host_files
    /\ list_filter' = None
    /\ prev_cleanup' = PrevCleanup
    /\ IF ~host_dir_exists
       THEN /\ CleanupReturns(
                   Err(FileSystemError("Failed to read backup directory")))
            /\ cutoff_date' = 0
            /\ entries' = {}
            /\ UNCHANGED now
       ELSE /\ now' = now + tick
            /\ cutoff_date' = CutoffDate(now + tick, config'.retention_days)
            /\ \/ /\ entries' = host_files
                  /\ pc' = "cl_loop"
                  /\ ret' = NoResult
               \/ /\ entries' = {}
                  /\ CleanupReturns(
                         Err(FileSystemError("Failed to read backup directory")))
    /\ UNCHANGED <<n_backups, envVars, hostVars, runVars>>

\* A caller invokes cleanup_old_backups(config): the existence test, the
\* cutoff and fs::read_dir (lines 76-88).
CallCleanupOldBackups ==
    /\ pc = "idle"
    /\ n_cleanups < MaxCleanups
    /\ n_cleanups' = n_cleanups + 1
    /\ op' = "cleanup_old_backups"
    /\ \E c \in DatabaseConfig : config' = c
    /\ configs' = <<>>
    /\ idx' = 0
    /\ container_backup_path' = NoPath
    /\ host_backup_path' = NoPath
    /\ bd_result' = NoResult
    /\ results' = <<>>
    /\ errors' = <<>>
    /\ log' = <<>>
    /\ deleted_count' = 0
    /\ host_files_before' = host_files
    /\ list_filter' = None
    /\ prev_cleanup' = PrevCleanup
    /\ IF ~host_dir_exists
       THEN /\ CleanupReturns(Ok(0))
            /\ cutoff_date' = 0
            /\ entries' = {}
            /\ UNCHANGED now
       ELSE /\ now' = now + tick
            /\ cutoff_date' = CutoffDate(now + tick, config'.retention_days)
            /\ \/ /\ entries' = host_files
                  /\ pc' = "cl_loop"
                  /\ ret' = NoResult
               \/ /\ entries' = {}
                  /\ CleanupReturns(
                         Err(FileSystemError("Failed to read backup directory")))
    /\ UNCHANGED <<n_backups, envVars, hostVars, runVars>>

\* One turn of `for entry in entries` (lines 90-123); read_dir yields the
\* entries in no particular order.
CleanupVisitEntry ==
    /\ pc = "cl_loop"
    /\ \E e \in entries, o \in EntryOutcomes :
        /\ entries' = entries \ {e}
        /\ \/ /\ o = "entry_err"
              /\ CleanupReturns(
                     Err(FileSystemError("Failed to read directory entry")))
              /\ UNCHANGED <<host_files, deleted_count>>
           \/ /\ o = "ok"
              /\ ~IsBackupOf(e, config.database_name)
              /\ UNCHANGED <<pc, ret, host_files, deleted_count>>
           \/ /\ IsBackupOf(e, config.database_name)
              /\ \/ /\ o = "metadata_err"
                    /\ CleanupReturns(
                           Err(FileSystemError("Failed to get file metadata")))
                    /\ UNCHANGED <<host_files, deleted_count>>
                 \/ /\ o = "mtime_err"
                    /\ CleanupReturns(Err(FileSystemError(
                           "Failed to get file modification time")))
                    /\ UNCHANGED <<host_files, deleted_count>>
                 \/ /\ o = "ok"
                    /\ ~IsExpired(e, cutoff_date)
                    /\ UNCHANGED <<pc, ret, host_files, deleted_count>>
                 \/ /\ o = "remove_err"
                    /\ IsExpired(e, cutoff_date)
                    /\ CleanupReturns(
                           Err(FileSystemError("Failed to delete old backup")))
                    /\ UNCHANGED <<host_files, deleted_count>>
                 \/ /\ o = "ok"
                    /\ IsExpired(e, cutoff_date)
                    /\ host_files' = host_files \ {e}
                    /\ deleted_count' = deleted_count + 1
                    /\ UNCHANGED <<pc, ret>>
    /\ UNCHANGED <<op, budgetVars, clockVars, host_dir_exists, batchVars,
                   config, container_backup_path, host_backup_path, bd_result,
                   log, cutoff_date, host_files_before,
                   callVars>>

\* The loop is over: Ok(deleted_count) (line 130).
CleanupFinish ==
    /\ pc = "cl_loop"
    /\ entries = {}
    /\ CleanupReturns(Ok(deleted_count))
    /\ UNCHANGED <<op, budgetVars, clockVars, hostVars, batchVars, config,
                   container_backup_path, host_backup_path, bd_result, log,
                   cleanupVars, host_files_before,
                   callVars>>

\* ------------------------------------------------------------- list_backups
\* The characters of the modelled names in byte order, the order of str's Ord.
CharOrder ==
    <<".", "/", "0", "1", "2", "3", "4", "5", "6", "7", "8", "9", "A", "B",
      "_", "a", "b", "c", "d", "h", "i", "k", "m", "p", "t", "u", "x", "z">>

CharRank(c) == CHOOSE i \in DOMAIN CharOrder : CharOrder[i] = c

\* a < b for strings: at the first position where they differ a has the
\* smaller byte, or a is a proper prefix of b.
StrLess(a, b) ==
    \E i \in 1..(Len(a) + 1) :
        /\ i <= Len(b)
        /\ SubSeq(a, 1, i - 1) = SubSeq(b, 1, i - 1)
        /\ \/ i = Len(a) + 1
           \/ /\ i <= Len(a)
              /\ CharRank(a[i]) < CharRank(b[i])

\* Variant of SortStrings that yields the names in descending order.
RECURSIVE SortStrings_Descending(_)
SortStrings_Descending(names) ==
    IF names = {} THEN <<>>
    ELSE LET m == CHOOSE x \in names : \A y \in names \ {x} : StrLess(y, x)
         IN  <<m>> \o SortStrings_Descending(names \ {m})

\* backups.sort() on the names collected from a directory (no two alike).
RECURSIVE SortStrings(_)
SortStrings(names) ==
    IF names = {} THEN <<>>
    ELSE LET m == CHOOSE x \in names : \A y \in names \ {x} : StrLess(x, y)
         IN  <<m>> \o SortStrings(names \ {m})

\* The database_name arguments a caller may pass to list_backups.
ListFilters == {None} \cup {Some(t.database_name) : t \in DatabaseConfig}

\* The names list_backups pushes: regular files, and with a filter only those
\* whose name contains it (lines 162-172).
ListedNames(files, filter) ==
    {e.name : e \in {f \in files :
                        /\ f.is_file
                        /\ filter.some => Contains(f.name, filter.val)}}

\* Variant of ListBackupsResult that reports a missing root as an error.
ListBackupsResult_MissingRootIsError(exists, files, filter, o) ==
    IF ~exists
    THEN Err(FileSystemError("Failed to read backup directory"))
    ELSE Ok(SortStrings(ListedNames(files, filter)))

\* What list_backups returns on a root that exists or not, holding files,
\* when reading the directory goes as o says.
ListBackupsResult(exists, files, filter, o) ==
    IF ~exists THEN Ok(<<>>)
    ELSE IF o = "read_dir_err"
    THEN Err(FileSystemError("Failed to read backup directory"))
    ELSE IF o = "entry_err" /\ files # {}
    THEN Err(FileSystemError("Failed to read directory entry"))
    ELSE Ok(SortStrings(ListedNames(files, filter)))

\* How reading a directory can go: a root that does not exist is not read,
\* and an entry can fail to be read only where there is one.
ReadOutcomes(exists, files) ==
    IF ~exists THEN {"ok"}
    ELSE IF files = {} THEN {"ok", "read_dir_err"}
    ELSE {"ok", "read_dir_err", "entry_err"}

\* A caller invokes list_backups(database_name) (lines 144-176).
CallListBackups ==
    /\ pc = "idle"
    /\ op' = "list_backups"
    /\ \E f \in ListFilters, o \in ReadOutcomes(host_dir_exists, host_files) :
        /\ list_filter' = f
        /\ ret' = ListBackupsResult(host_dir_exists, host_files, f, o)
    /\ pc' = "idle"
    /\ prev_cleanup' = NoResult
    /\ config' = NoConfig
    /\ configs' = <<>>
    /\ idx' = 0
    /\ container_backup_path' = NoPath
    /\ host_backup_path' = NoPath
    /\ bd_result' = NoResult
    /\ results' = <<>>
    /\ errors' = <<>>
    /\ log' = <<>>
    /\ cutoff_date' = 0
    /\ deleted_count' = 0
    /\ entries' = {}
    /\ host_files_before' = host_files
    /\ UNCHANGED <<budgetVars, clockVars, hostVars, runVars>>

\* ------------------------------------------------------- Commands::Status
\* config.databases: the configured targets in file order.
Databases == <<TargetA, TargetB>>

\* What the Status command computes (main.rs lines 94-114): the running
\* containers from list_containers, then is_container_running for each
\* configured target; the first command that fails ends it with its error.
StatusResult(rs, o_list, o_ps) ==
    LET failed == {k \in DOMAIN Databases : o_ps[k] # "ok"}
        first  == CHOOSE k \in failed : \A j \in failed : k <= j
    IN  IF o_list # "ok"
        THEN Err(DockerError("Failed to list containers"))
        ELSE IF failed # {}
        THEN Err(DockerError(IF o_ps[first] = "spawn_err"
                             THEN "Failed to check container status"
                             ELSE "Docker command failed"))
        ELSE Ok([containers |-> rs,
                 status |-> [k \in DOMAIN Databases |->
                     <<Databases[k].name, Databases[k].container_name,
                       IsContainerRunning(rs, Databases[k].container_name)>>]])

\* Outcomes of the commands of one Status run: list_containers, then one
\* query per target; nothing is run after the first command that fails.
StatusOutcomes ==
    {o \in CommandOutcomes \X [DOMAIN Databases -> CommandOutcomes] :
        /\ o[1] # "ok" => \A k \in DOMAIN Databases : o[2][k] = "ok"
        /\ \A j, k \in DOMAIN Databases :
               (j < k /\ o[2][j] # "ok") => o[2][k] = "ok"}

\* A caller runs the Status command.
ReportStatus ==
    /\ pc = "idle"
    /\ op' = "status"
    /\ \E o \in StatusOutcomes : ret' = StatusResult(running, o[1], o[2])
    /\ pc' = "idle"
    /\ list_filter' = None
    /\ prev_cleanup' = NoResult
    /\ config' = NoConfig
    /\ configs' = <<>>
    /\ idx' = 0
    /\ container_backup_path' = NoPath
    /\ host_backup_path' = NoPath
    /\ bd_result' = NoResult
    /\ results' = <<>>
    /\ errors' = <<>>
    /\ log' = <<>>
    /\ cutoff_date' = 0
    /\ deleted_count' = 0
    /\ entries' = {}
    /\ host_files_before' = host_files
    /\ UNCHANGED <<budgetVars, clockVars, hostVars, runVars>>

Next ==
    \/ CallBackupDatabase
    \/ EnsureBackupDirectory
    \/ ExecuteBackupCheckRunning
    \/ ExecuteBackupMkdir
    \/ ExecuteBackupCurl
    \/ ExecuteBackupTestFile
    \/ CopyBackupToHost
    \/ CleanupContainerBackup
    \/ ReturnBackupDatabase
    \/ CallBackupAllDatabases
    \/ BackupAllNext
    \/ BackupAllCollect
    \/ CallCleanupOldBackups
    \/ CleanupVisitEntry
    \/ CleanupFinish

Spec == Init /\ [][Next]_vars

\* The same program started on a host root that already holds entries of
\* various names, kinds and ages; MaxCleanups cleanups and one backup may be
\* requested.
InitSweep ==
    /\ pc = "idle"
    /\ op = "none"
    /\ n_backups = MaxBackups - 1
    /\ n_cleanups = 0
    /\ now = Now0
    /\ running \in RunningSets
    /\ tick \in {0, MaxTick}
    /\ host_dir_exists \in BOOLEAN
    /\ host_files \in InitHostFiles
    /\ (~host_dir_exists => host_files = {})
    /\ host_files_before = host_files
    /\ configs = <<>>
    /\ idx = 0
    /\ config = NoConfig
    /\ container_backup_path = NoPath
    /\ host_backup_path = NoPath
    /\ bd_result = NoResult
    /\ results = <<>>
    /\ errors = <<>>
    /\ ret = NoResult
    /\ log = <<>>
    /\ cutoff_date = 0
    /\ deleted_count = 0
    /\ entries = {}
    /\ list_filter = None
    /\ prev_cleanup = NoResult
    /\ NoProcess

SpecSweep == InitSweep /\ [][Next]_vars

\* The orchestrator together with the commands that only inspect: the catalog
\* listing and the container status.
NextCommands ==
    \/ Next
    \/ CallListBackups
    \/ ReportStatus

\* Host roots for the catalog: entries of various names and kinds, all of
\* them older than every retention window.
InitCatalogFiles ==
    {S \in InitHostFiles : \A e \in S : e.mtime = Now0 - SecondsPerDay - 1}

\* The program started on a host root that may hold entries; one backup and
\* one cleanup may be requested, and any number of listings and status
\* reports.
InitCatalog ==
    /\ pc = "idle"
    /\ op = "none"
    /\ n_backups = MaxBackups - 1
    /\ n_cleanups = MaxCleanups - 1
    /\ now = Now0
    /\ running \in RunningSets
    /\ tick \in {0, MaxTick}
    /\ host_dir_exists \in BOOLEAN
    /\ host_files \in InitCatalogFiles
    /\ (~host_dir_exists => host_files = {})
    /\ host_files_before = host_files
    /\ configs = <<>>
    /\ idx = 0
    /\ config = NoConfig
    /\ container_backup_path = NoPath
    /\ host_backup_path = NoPath
    /\ bd_result = NoResult
    /\ results = <<>>
    /\ errors = <<>>
    /\ ret = NoResult
    /\ log = <<>>
    /\ cutoff_date = 0
    /\ deleted_count = 0
    /\ entries = {}
    /\ list_filter = None
    /\ prev_cleanup = NoResult
    /\ NoProcess

SpecCatalog == InitCatalog /\ [][NextCommands]_vars

\* ---------------------------------------------------- naming of artifacts
\* Subject identifiers a configuration may carry (Config::validate asks only
\* that they are not empty): plain ones, ones with a path separator, and one
\* that ends like an artifact name.
NamingSubjects ==
    {<<"d", "b">>, <<"d", "b", "2">>, <<"b">>, <<"d", "/", "b">>,
     <<"x", "/", "b">>,
     <<"d", "b", "_">> \o FormatTimestamp(Now0) \o <<".", "z", "i", "p">>}

\* The two artifact formats Config::validate accepts.
BackupFormats == {<<"z", "i", "p">>, <<"d", "u", "m", "p">>}

NamingTargets ==
    {[TargetA EXCEPT !.database_name = s, !.backup_format = f] :
        s \in NamingSubjects, f \in BackupFormats}

\* Two targets are about to be backed up one after the other, every command
\* of both backups succeeding.
InitNaming ==
    /\ pc = "naming"
    /\ op = "backup_all_databases"
    /\ n_backups = 0
    /\ n_cleanups = 0
    /\ now = Now0
    /\ running = {}
    /\ tick \in {0, MaxTick}
    /\ host_dir_exists = TRUE
    /\ host_files = {}
    /\ host_files_before = {}
    /\ configs \in [1..2 -> NamingTargets]
    /\ idx = 0
    /\ config = NoConfig
    /\ container_backup_path = NoPath
    /\ host_backup_path = NoPath
    /\ bd_result = NoResult
    /\ results = <<>>
    /\ errors = <<>>
    /\ ret = NoResult
    /\ log = <<>>
    /\ cutoff_date = 0
    /\ deleted_count = 0
    /\ entries = {}
    /\ list_filter = None
    /\ prev_cleanup = NoResult
    /\ NoProcess

\* The paths of the next target's artifact: the timestamped path inside the
\* container (docker.rs lines 50-56), the host path derived from it (lines
\* 129-133) and the entry of the batch result (backup.rs lines 57-60).
NameArtifact ==
    /\ pc = "naming"
    /\ idx < Len(configs)
    /\ idx' = idx + 1
    /\ config' = configs[idx + 1]
    /\ now' = now + tick
    /\ container_backup_path' =
           JoinPath(config'.output_path,
               BackupFilename(config'.database_name,
                   FormatTimestamp(now + tick), config'.backup_format))
    /\ host_backup_path' = HostBackupPath(HostBackupDir, container_backup_path')
    /\ host_files' = HostFilesAfterCopy(host_files,
                         LastSegment(container_backup_path'), now + tick)
    /\ results' = Append(results, <<config'.name, host_backup_path'>>)
    /\ log' = Append(log, [step |-> "cp", idx |-> idx + 1,
                           container |-> config'.container_name,
                           path |-> container_backup_path', res |-> "ok"])
    /\ UNCHANGED <<pc, op, budgetVars, envVars, host_dir_exists, configs,
                   bd_result, errors, ret, cleanupVars, host_files_before,
                   callVars>>

SpecNaming == InitNaming /\ [][NameArtifact]_vars

\* ------------------------------------------------- configuration (config.rs)
\* BackupError::Config with its message.
ConfigError(msg) == [kind |-> "Config", msg |-> msg]

\* BackupError::Config whose message starts with "Database {i}: ".
ConfigErrorAt(i, msg) == [kind |-> "Config", msg |-> msg, index |-> i]

\* Variant of ValidateDatabase that accepts any non-empty artifact format.
ValidateDatabase_AnyFormat(i, db) ==
    IF db.name = <<>>
    THEN Err(ConfigErrorAt(i, "name cannot be empty"))
    ELSE IF db.database_name = <<>>
    THEN Err(ConfigErrorAt(i, "database_name cannot be empty"))
    ELSE IF db.url = <<>>
    THEN Err(ConfigErrorAt(i, "url cannot be empty"))
    ELSE IF db.container_name = <<>>
    THEN Err(ConfigErrorAt(i, "container_name cannot be empty"))
    ELSE IF db.master_password = <<>>
    THEN Err(ConfigErrorAt(i, "master_password cannot be empty"))
    ELSE IF db.backup_format = <<>>
    THEN Err(ConfigErrorAt(i, "backup_format must be 'zip' or 'dump'"))
    ELSE Ok("unit")

\* The body of `for (i, db) in self.databases.iter().enumerate()` in
\* Config::validate (lines 42-60): the checks of one target in their order,
\* the first that fails returning its error.
ValidateDatabase(i, db) ==
    IF db.name = <<>>
    THEN Err(ConfigErrorAt(i, "name cannot be empty"))
    ELSE IF db.database_name = <<>>
    THEN Err(ConfigErrorAt(i, "database_name cannot be empty"))
    ELSE IF db.url = <<>>
    THEN Err(ConfigErrorAt(i, "url cannot be empty"))
    ELSE IF db.container_name = <<>>
    THEN Err(ConfigErrorAt(i, "container_name cannot be empty"))
    ELSE IF db.master_password = <<>>
    THEN Err(ConfigErrorAt(i, "master_password cannot be empty"))
    ELSE IF db.backup_format \notin BackupFormats
    THEN Err(ConfigErrorAt(i, "backup_format must be 'zip' or 'dump'"))
    ELSE Ok("unit")

\* The loop of Config::validate from position i (0-based) on.
RECURSIVE ValidateFrom(_, _)
ValidateFrom(databases, i) ==
    IF i >= Len(databases) THEN Ok("unit")
    ELSE IF ~ValidateDatabase(i, databases[i + 1]).ok
    THEN ValidateDatabase(i, databases[i + 1])
    ELSE ValidateFrom(databases, i + 1)

\* Config::validate (lines 36-63).
Validate(databases) ==
    IF databases = <<>>
    THEN Err(ConfigError("No databases configured"))
    ELSE ValidateFrom(databases, 0)

\* Variant of GetDatabase that compares names without regard to case.
GetDatabase_IgnoreCase(databases, client_name) ==
    LET lower(s) == [k \in DOMAIN s |-> IF s[k] = "A" THEN "a"
                                        ELSE IF s[k] = "B" THEN "b"
                                        ELSE IF s[k] = "C" THEN "c"
                                        ELSE s[k]]
        hits == {k \in DOMAIN databases :
                    lower(databases[k].name) = lower(client_name)}
    IN  IF hits = {} THEN None
        ELSE Some(databases[CHOOSE k \in hits : \A j \in hits : k <= j])

\* Config::get_database (lines 65-67): the first target whose name equals
\* the argument.
GetDatabase(databases, client_name) ==
    LET hits == {k \in DOMAIN databases : databases[k].name = client_name}
    IN  IF hits = {} THEN None
        ELSE Some(databases[CHOOSE k \in hits : \A j \in hits : k <= j])

\* What the file at the configuration path holds: it cannot be read, or its
\* text is not a JSON array of target descriptors, or it is and deserialises
\* to databases.
UnreadableFile == [readable |-> FALSE, json |-> FALSE, databases |-> <<>>]

MalformedFile == [readable |-> TRUE, json |-> FALSE, databases |-> <<>>]

JsonFile(databases) ==
    [readable |-> TRUE, json |-> TRUE, databases |-> databases]

\* Variant of FromFile that does not validate what it parsed.
FromFile_NoValidation(file) ==
    IF ~file.readable
    THEN Err(FileSystemError("Failed to read config file"))
    ELSE IF ~file.json
    THEN Err(ConfigError("Invalid JSON in config file"))
    ELSE Ok(file.databases)

\* Config::from_file (lines 23-34): read_to_string, serde_json::from_str,
\* validate.
FromFile(file) ==
    IF ~file.readable
    THEN Err(FileSystemError("Failed to read config file"))
    ELSE IF ~file.json
    THEN Err(ConfigError("Invalid JSON in config file"))
    ELSE IF ~Validate(file.databases).ok
    THEN Validate(file.databases)
    ELSE Ok(file.databases)

\* Targets as a configuration file may describe them: the two well-formed
\* ones, one with an empty output_path, and TargetA with one of the checked
\* fields empty or with a format that is neither zip nor dump.
FileTargets ==
    {TargetA, TargetB,
     [TargetB EXCEPT !.output_path = <<>>],
     [TargetA EXCEPT !.name = <<>>],
     [TargetA EXCEPT !.database_name = <<>>],
     [TargetA EXCEPT !.url = <<>>],
     [TargetA EXCEPT !.container_name = <<>>],
     [TargetA EXCEPT !.master_password = <<>>],
     [TargetA EXCEPT !.name = <<>>, !.backup_format = <<"t", "a", "r">>],
     [TargetA EXCEPT !.backup_format = <<"t", "a", "r">>],
     [TargetA EXCEPT !.backup_format = <<"Z", "I", "P">>]}

\* The lists Config::validate is applied to: every list of at most
\* MaxBackups targets.
ValidateInputs == UNION {[1..k -> FileTargets] : k \in 0..MaxBackups}

\* A list has been deserialised and is about to be validated.
InitValidate ==
    /\ pc = "validate"
    /\ op = "none"
    /\ n_backups = 0
    /\ n_cleanups = 0
    /\ now = Now0
    /\ running = {}
    /\ tick = 0
    /\ host_dir_exists = FALSE
    /\ host_files = {}
    /\ host_files_before = {}
    /\ configs \in ValidateInputs
    /\ idx = 0
    /\ config = NoConfig
    /\ container_backup_path = NoPath
    /\ host_backup_path = NoPath
    /\ bd_result = NoResult
    /\ results = <<>>
    /\ errors = <<>>
    /\ ret = NoResult
    /\ log = <<>>
    /\ cutoff_date = 0
    /\ deleted_count = 0
    /\ entries = {}
    /\ list_filter = None
    /\ prev_cleanup = NoResult
    /\ NoProcess

\* config.validate() is applied to the list.
ApplyValidate ==
    /\ pc = "validate"
    /\ op' = "validate"
    /\ ret' = Validate(configs)
    /\ pc' = "validated"
    /\ UNCHANGED <<budgetVars, clockVars, hostVars, batchVars, config,
                   container_backup_path, host_backup_path, bd_result, log,
                   cleanupVars, host_files_before, callVars>>

SpecValidate == InitValidate /\ [][ApplyValidate]_vars

\* ------------------------------------------------- the command line (main.rs)
\* Cli { command, .. }: the subcommand with its optional argument, the client
\* of Backup and Clean or the database of ListBackups.
CliCommand(command, client) == [command |-> command, client |-> client]

\* The client names given on the command line: those of the configured
\* targets, one of them in another case, and one that is not configured.
ClientNames == {<<"A">>, <<"B">>, <<"a">>, <<"C">>}

Commands ==
    {CliCommand(c, n) : c \in {"Backup", "Clean"},
                        n \in {None} \cup {Some(x) : x \in ClientNames}}
    \cup {CliCommand("List", None), CliCommand("Status", None)}
    \cup {CliCommand("ListBackups", f) : f \in ListFilters}

\* What the configuration file may hold when the process starts; the only
\* list that passes validation is Databases.
ConfigFiles ==
    {UnreadableFile, MalformedFile, JsonFile(<<>>),
     JsonFile(<<TargetA, [TargetB EXCEPT !.url = <<>>]>>),
     JsonFile(Databases)}

\* The process exit status main gives for what run returned (lines 28-31).
ExitCode(r) == IF r.ok THEN 0 ELSE 1

\* What no step of the command layer outside a BackupManager call touches.
managerFrame ==
    <<op, budgetVars, clockVars, hostVars, batchVars, config,
      container_backup_path, host_backup_path, bd_result, ret, log,
      cleanupVars, host_files_before, list_filter, prev_cleanup>>

\* main has parsed the command line; the host root may hold entries.
InitRun ==
    /\ pc = "run_load"
    /\ op = "none"
    /\ n_backups = 0
    /\ n_cleanups = 0
    /\ now = Now0
    /\ running \in RunningSets
    /\ tick \in {0, MaxTick}
    /\ host_dir_exists \in BOOLEAN
    /\ host_files \in InitCatalogFiles
    /\ (~host_dir_exists => host_files = {})
    /\ host_files_before = host_files
    /\ configs = <<>>
    /\ idx = 0
    /\ config = NoConfig
    /\ container_backup_path = NoPath
    /\ host_backup_path = NoPath
    /\ bd_result = NoResult
    /\ results = <<>>
    /\ errors = <<>>
    /\ ret = NoResult
    /\ log = <<>>
    /\ cutoff_date = 0
    /\ deleted_count = 0
    /\ entries = {}
    /\ list_filter = None
    /\ prev_cleanup = NoResult
    /\ cli \in Commands
    /\ config_file = NoResult
    /\ run_config = <<>>
    /\ run_idx = 0
    /\ total_deleted = 0
    /\ run_result = NoResult

\* run returns r to main, which exits.
RunReturns(r) ==
    /\ run_result' = r
    /\ pc' = "exited"

\* let config = Config::from_file(&cli.config)?  (line 36)
RunLoadConfig ==
    /\ pc = "run_load"
    /\ \E f \in ConfigFiles :
        /\ config_file' = f
        /\ IF FromFile(f).ok
           THEN /\ run_config' = FromFile(f).val
                /\ pc' = "run_dispatch"
                /\ UNCHANGED run_result
           ELSE /\ RunReturns(Err(FromFile(f).err))
                /\ UNCHANGED run_config
    /\ UNCHANGED <<managerFrame, cli, run_idx, total_deleted>>

\* backup_manager.backup_database(db_config) is called (line 50).
BackupDatabaseCall(c) ==
    /\ config' = c
    /\ configs' = <<>>
    /\ idx' = 0
    /\ op' = "backup_database"
    /\ pc' = "bd_ensure"
    /\ ResetLocals

\* Commands::Backup { client: Some(client_name) } (lines 46-66), up to the
\* call of backup_database.
RunBackupOne ==
    /\ pc = "run_dispatch"
    /\ cli.command = "Backup"
    /\ cli.client.some
    /\ IF GetDatabase(run_config, cli.client.val).some
       THEN /\ BackupDatabaseCall(GetDatabase(run_config, cli.client.val).val)
            /\ UNCHANGED <<budgetVars, clockVars, hostVars, runVars>>
       ELSE /\ RunReturns(Err(ConfigError("Client not found")))
            /\ UNCHANGED <<managerFrame, cli, config_file, run_config,
                           run_idx, total_deleted>>

\* Variant of SingleResult that reports success whatever the call returned.
SingleResult_Swallow(r) == Ok("unit")

\* What run returns after the call of a single-target command returned r:
\* the match on backup_database (lines 51-59), the `?` on
\* cleanup_old_backups (line 120).
SingleResult(r) == IF r.ok THEN Ok("unit") ELSE Err(r.err)

\* backup_database has returned to run (lines 51-59).
RunBackupOneReturns ==
    /\ pc = "idle"
    /\ op = "backup_database"
    /\ run_result = NoResult
    /\ RunReturns(SingleResult(ret))
    /\ UNCHANGED <<managerFrame, cli, config_file, run_config, run_idx,
                   total_deleted>>

\* Commands::Backup { client: None }: backup_all_databases(&config.databases)
\* is called (lines 67-69).
RunBackupAll ==
    /\ pc = "run_dispatch"
    /\ cli.command = "Backup"
    /\ ~cli.client.some
    /\ configs' = run_config
    /\ idx' = 0
    /\ config' = NoConfig
    /\ op' = "backup_all_databases"
    /\ pc' = "ba_loop"
    /\ ResetLocals
    /\ UNCHANGED <<budgetVars, clockVars, hostVars, runVars>>

\* Variant of BackupAllResult that fails when a target of the batch failed.
BackupAllResult_FailOnPartial(r) ==
    IF r.ok /\ Len(r.val) = Len(configs) THEN Ok("unit")
    ELSE Err(ConfigError("Some backups failed"))

\* What run returns after backup_all_databases returned r: the `?` of line
\* 69, then the report of lines 71-81 and Ok(()).
BackupAllResult(r) == IF r.ok THEN Ok("unit") ELSE Err(r.err)

\* backup_all_databases has returned to run (lines 69-82).
RunBackupAllReturns ==
    /\ pc = "idle"
    /\ op = "backup_all_databases"
    /\ run_result = NoResult
    /\ RunReturns(BackupAllResult(ret))
    /\ UNCHANGED <<managerFrame, cli, config_file, run_config, run_idx,
                   total_deleted>>

\* Commands::List (lines 84-93): the configured targets are printed.
RunList ==
    /\ pc = "run_dispatch"
    /\ cli.command = "List"
    /\ RunReturns(Ok("unit"))
    /\ UNCHANGED <<managerFrame, cli, config_file, run_config, run_idx,
                   total_deleted>>

\* Commands::Status (lines 94-114).
RunStatus ==
    /\ pc = "run_dispatch"
    /\ cli.command = "Status"
    /\ op' = "status"
    /\ \E o \in StatusOutcomes :
        /\ ret' = StatusResult(running, o[1], o[2])
        /\ RunReturns(SingleResult(StatusResult(running, o[1], o[2])))
    /\ UNCHANGED <<budgetVars, clockVars, hostVars, batchVars, config,
                   container_backup_path, host_backup_path, bd_result, log,
                   cleanupVars, host_files_before, list_filter, prev_cleanup,
                   cli, config_file, run_config, run_idx, total_deleted>>

\* backup_manager.cleanup_old_backups(c) is called: the existence test, the
\* cutoff and fs::read_dir (backup.rs lines 76-88).
CleanupOldBackupsCall(c) ==
    /\ op' = "cleanup_old_backups"
    /\ config' = c
    /\ configs' = <<>>
    /\ idx' = 0
    /\ container_backup_path' = NoPath
    /\ host_backup_path' = NoPath
    /\ bd_result' = NoResult
    /\ results' = <<>>
    /\ errors' = <<>>
    /\ log' = <<>>
    /\ deleted_count' = 0
    /\ host_files_before' = host_files
    /\ list_filter' = None
    /\ prev_cleanup' = PrevCleanup
    /\ IF ~host_dir_exists
       THEN /\ CleanupReturns(Ok(0))
            /\ cutoff_date' = 0
            /\ entries' = {}
            /\ UNCHANGED now
       ELSE /\ now' = now + tick
            /\ cutoff_date' = CutoffDate(now + tick, c.retention_days)
            /\ \/ /\ entries' = host_files
                  /\ pc' = "cl_loop"
                  /\ ret' = NoResult
               \/ /\ entries' = {}
                  /\ CleanupReturns(
                         Err(FileSystemError("Failed to read backup directory")))

\* Commands::Clean { client: Some(client_name) } (lines 116-131), up to the
\* call of cleanup_old_backups.
RunCleanOne ==
    /\ pc = "run_dispatch"
    /\ cli.command = "Clean"
    /\ cli.client.some
    /\ IF GetDatabase(run_config, cli.client.val).some
       THEN /\ CleanupOldBackupsCall(
                   GetDatabase(run_config, cli.client.val).val)
            /\ UNCHANGED <<budgetVars, envVars, hostVars, runVars>>
       ELSE /\ RunReturns(Err(ConfigError("Client not found")))
            /\ UNCHANGED <<managerFrame, cli, config_file, run_config,
                           run_idx, total_deleted>>

\* cleanup_old_backups has returned to the single-target Clean (lines
\* 120-124).
RunCleanOneReturns ==
    /\ pc = "idle"
    /\ op = "cleanup_old_backups"
    /\ cli.client.some
    /\ run_result = NoResult
    /\ RunReturns(SingleResult(ret))
    /\ UNCHANGED <<managerFrame, cli, config_file, run_config, run_idx,
                   total_deleted>>

\* Commands::Clean { client: None }: let mut total_deleted = 0 (lines
\* 132-135).
RunCleanAll ==
    /\ pc = "run_dispatch"
    /\ cli.command = "Clean"
    /\ ~cli.client.some
    /\ run_idx' = 0
    /\ total_deleted' = 0
    /\ pc' = "run_clean_loop"
    /\ UNCHANGED <<managerFrame, cli, config_file, run_config, run_result>>

\* `for db_config in &config.databases`: cleanup_old_backups is called for
\* the next target, or the loop ends and run returns Ok(()) (lines 136-141).
RunCleanAllNext ==
    /\ pc = "run_clean_loop"
    /\ IF run_idx < Len(run_config)
       THEN /\ run_idx' = run_idx + 1
            /\ CleanupOldBackupsCall(run_config[run_idx + 1])
            /\ UNCHANGED <<budgetVars, envVars, hostVars, cli, config_file,
                           run_config, total_deleted, run_result>>
       ELSE /\ RunReturns(Ok("unit"))
            /\ UNCHANGED <<managerFrame, cli, config_file, run_config,
                           run_idx, total_deleted>>

\* cleanup_old_backups has returned inside the loop: `?`, then
\* total_deleted += deleted_count (lines 137-138).
RunCleanAllCollect ==
    /\ pc = "idle"
    /\ op = "cleanup_old_backups"
    /\ ~cli.client.some
    /\ run_result = NoResult
    /\ IF ret.ok
       THEN /\ total_deleted' = total_deleted + ret.val
            /\ pc' = "run_clean_loop"
            /\ UNCHANGED run_result
       ELSE /\ RunReturns(Err(ret.err))
            /\ UNCHANGED total_deleted
    /\ UNCHANGED <<managerFrame, cli, config_file, run_config, run_idx>>

\* Commands::ListBackups { database } (lines 143-154).
RunListBackups ==
    /\ pc = "run_dispatch"
    /\ cli.command = "ListBackups"
    /\ op' = "list_backups"
    /\ list_filter' = cli.client
    /\ \E o \in ReadOutcomes(host_dir_exists, host_files) :
        /\ ret' = ListBackupsResult(host_dir_exists, host_files, cli.client, o)
        /\ RunReturns(SingleResult(
               ListBackupsResult(host_dir_exists, host_files, cli.client, o)))
    /\ UNCHANGED <<budgetVars, clockVars, hostVars, batchVars, config,
                   container_backup_path, host_backup_path, bd_result, log,
                   cleanupVars, host_files_before, prev_cleanup,
                   cli, config_file, run_config, run_idx, total_deleted>>

\* One run of the program: main loads the configuration, run dispatches the
\* command, the BackupManager does its steps, run returns and main exits.
NextRun ==
    \/ RunLoadConfig
    \/ RunBackupOne
    \/ RunBackupOneReturns
    \/ RunBackupAll
    \/ RunBackupAllReturns
    \/ RunList
    \/ RunStatus
    \/ RunCleanOne
    \/ RunCleanOneReturns
    \/ RunCleanAll
    \/ RunCleanAllNext
    \/ RunCleanAllCollect
    \/ RunListBackups
    \/ EnsureBackupDirectory
    \/ ExecuteBackupCheckRunning
    \/ ExecuteBackupMkdir
    \/ ExecuteBackupCurl
    \/ ExecuteBackupTestFile
    \/ CopyBackupToHost
    \/ CleanupContainerBackup
    \/ ReturnBackupDatabase
    \/ BackupAllNext
    \/ BackupAllCollect
    \/ CleanupVisitEntry
    \/ CleanupFinish

SpecRun == InitRun /\ [][NextRun]_vars

\* =================================================================== claims
\* Reading the record of a call.
BatchReturned == pc = "idle" /\ op = "backup_all_databases"

SingleReturned == pc = "idle" /\ op = "backup_database"

CleanupReturned == pc = "idle" /\ op = "cleanup_old_backups"

\* The steps issued for position i of the batch, without the return.
IssuedSteps(i) == SelectSeq(log, LAMBDA e : e.idx = i /\ e.step # "return")

Returned(i) ==
    \E k \in DOMAIN log : log[k].idx = i /\ log[k].step = "return"

ReturnOf(i) ==
    log[CHOOSE k \in DOMAIN log : log[k].idx = i /\ log[k].step = "return"]

SucceededIdx ==
    {i \in 1..Len(configs) : Returned(i) /\ ReturnOf(i).res = "ok"}

FailedIdx ==
    {i \in 1..Len(configs) : Returned(i) /\ ReturnOf(i).res # "ok"}

\* The members of a set of positions, in ascending order.
Ascending(S) ==
    [k \in 1..Cardinality(S) |->
        CHOOSE i \in S : Cardinality({j \in S : j < i}) = k - 1]

\* The order of the steps of one backup.
StepOrder == <<"ensure_dir", "ps", "mkdir", "curl", "test", "cp", "rm">>

\* A step that ended in a failure that backup_database must report.
IsFailure(e) ==
    /\ e.step \in {"ensure_dir", "ps", "mkdir", "curl", "test", "cp"}
    /\ e.res # "ok"

\* The error each failing step is documented to produce.
ExpectedError(step, res) ==
    CASE step = "ensure_dir" ->
            FileSystemError("Failed to create backup directory")
      [] step = "ps" /\ res = "spawn_err" ->
            DockerError("Failed to check container status")
      [] step = "ps" /\ res = "fail" -> DockerError("Docker command failed")
      [] step = "ps" /\ res = "not_running" ->
            DockerError("Container is not running")
      [] step = "mkdir" -> DockerError("Failed to create backup directory")
      [] step = "curl" /\ res = "spawn_err" ->
            DockerError("Failed to execute backup command")
      [] step = "curl" /\ res = "fail" -> DockerError("Backup command failed")
      [] step = "test" /\ res = "spawn_err" ->
            DockerError("Failed to check backup file")
      [] step = "test" /\ res = "fail" ->
            DockerError("Backup file was not created")
      [] step = "cp" /\ res = "spawn_err" ->
            DockerError("Failed to copy backup file")
      [] step = "cp" /\ res = "fail" -> DockerError("Failed to copy backup")
      [] OTHER -> DockerError("Failed to cleanup backup file")

\* C1: in a batch the backup of every target of the list is started, in the
\* order of the list and against that target's container, whatever happened to
\* the targets before it; when the batch returns, all of them were started.
C1_EveryTargetAttemptedInOrder ==
    op = "backup_all_databases" =>
        LET starts == SelectSeq(log, LAMBDA e : e.step = "ensure_dir")
        IN  /\ Len(starts) <= Len(configs)
            /\ \A k \in 1..Len(starts) :
                /\ starts[k].idx = k
                /\ starts[k].container = configs[k].container_name
            /\ BatchReturned => Len(starts) = Len(configs)

\* A batch of two whose first target failed and whose second target was still
\* queried for liveness.
C1_Witness ==
    /\ BatchReturned
    /\ Len(configs) = 2
    /\ 1 \in FailedIdx
    /\ \E k \in DOMAIN log : log[k].idx = 2 /\ log[k].step = "ps"

\* C2: once the transfer of a backup succeeded, backup_database returns
\* success with the host artifact path, however the remote removal ended.
C2_CleanupFailureKeepsSuccess ==
    (/\ pc = "bd_ret"
     /\ \E k \in DOMAIN log :
            log[k].idx = idx /\ log[k].step = "cp" /\ log[k].res = "ok")
    => (bd_result.ok /\ bd_result.val = host_backup_path)

\* The failure messages a batch is to report: one per failed target, in input
\* order, "Failed to backup <name>: <cause>".
ExpectedFailureMessages ==
    LET failed == Ascending(FailedIdx)
    IN  [k \in 1..Len(failed) |->
            LET steps == IssuedSteps(failed[k])
                last  == steps[Len(steps)]
            IN  <<"Failed to backup ", configs[failed[k]].name, ": ">>
                \o Display(ExpectedError(last.step, last.res))]

C4_SuccessesAreSucceededTargets ==
    BatchReturned =>
        LET succeeded == Ascending(SucceededIdx)
        IN  /\ ret.ok
            /\ Len(ret.val) = Len(configs) - Cardinality(FailedIdx)
            /\ ret.val = [k \in 1..Len(succeeded) |->
                            <<configs[succeeded[k]].name,
                              ReturnOf(succeeded[k]).path>>]

\* A batch of two different targets that both succeeded.
C4_Witness ==
    /\ BatchReturned
    /\ Len(configs) = 2
    /\ configs[1] # configs[2]
    /\ SucceededIdx = {1, 2}

\* C5: within one backup the transfer is issued only right after the existence
\* check of the artifact succeeded and copies that artifact, the remote removal
\* is issued only right after the transfer of the same backup succeeded and
\* removes that artifact, and a successful transfer is always followed by the
\* remote removal.
C5_TriggerTransferRemovalInOrder ==
    \A k \in DOMAIN log :
        /\ log[k].step = "cp" =>
            /\ k > 1
            /\ log[k - 1].step = "test"
            /\ log[k - 1].res = "ok"
            /\ log[k - 1].idx = log[k].idx
            /\ log[k].path = HostBackupPath(HostBackupDir, log[k - 1].path)
        /\ log[k].step = "rm" =>
            /\ k > 2
            /\ log[k - 1].step = "cp"
            /\ log[k - 1].res = "ok"
            /\ log[k - 1].idx = log[k].idx
            /\ log[k].path = log[k - 2].path
        /\ (log[k].step = "cp" /\ log[k].res = "ok") =>
            IF k = Len(log)
            THEN pc = "bd_cleanup"
            ELSE log[k + 1].step = "rm" /\ log[k + 1].idx = log[k].idx

\* A backup whose remote removal was issued and came back with a bad status.
C5_Witness ==
    \E k \in DOMAIN log : log[k].step = "rm" /\ log[k].res = "fail"

\* C6: a failing step other than the remote removal is the last step of its
\* backup: backup_database returns the error of that step at once, nothing
\* more is issued for the target, and the target is not among the successes.
C6_FirstFailureAborts ==
    /\ \A k \in DOMAIN log :
        IsFailure(log[k]) =>
            /\ k < Len(log)
            /\ log[k + 1].step = "return"
            /\ log[k + 1].idx = log[k].idx
            /\ log[k + 1].res = ExpectedError(log[k].step, log[k].res).kind
            /\ \A j \in DOMAIN log : j > k + 1 => log[j].idx # log[k].idx
    /\ (pc = "bd_ret" /\ IsFailure(log[Len(log) - 1])) =>
            bd_result = Err(ExpectedError(log[Len(log) - 1].step,
                                          log[Len(log) - 1].res))
    /\ (SingleReturned /\ IsFailure(log[Len(log) - 1])) => ~ret.ok
    /\ BatchReturned => Len(ret.val) = Cardinality(SucceededIdx)

\* A backup whose transfer failed has returned: no remote removal follows.
C6_Witness ==
    /\ pc = "bd_ret"
    /\ log[Len(log) - 1].step = "cp"
    /\ log[Len(log) - 1].res = "fail"

\* C7: when the liveness query reports that the container is not running,
\* backup_database returns a Docker error, the only steps of that backup are
\* the host root check and the query, and a single backup leaves the host root
\* as it was.
C7_NotRunningIssuesNoCommand ==
    \A k \in DOMAIN log :
        (log[k].step = "ps" /\ log[k].res = "not_running") =>
            /\ k < Len(log)
            /\ log[k + 1].step = "return"
            /\ log[k + 1].res = "Docker"
            /\ \A j \in DOMAIN log :
                log[j].idx = log[k].idx =>
                    log[j].step \in {"ensure_dir", "ps", "return"}
            /\ op = "backup_database" =>
                /\ host_files = host_files_before
                /\ host_backup_path = NoPath
                /\ bd_result =
                       Err(DockerError("Container is not running"))

\* A single backup that returned because its container was not running.
C7_Witness ==
    /\ SingleReturned
    /\ ~ret.ok
    /\ ret.err = DockerError("Container is not running")

\* C8: the k-th step issued for one backup is the k-th step of the fixed order
\* (so each is issued at most once) and is issued only after every step before
\* it succeeded; a backup returns once, and only right after a step of its own
\* that failed or after the remote removal; in a batch every position of the
\* list has returned when the batch returns.
C8_NoRetry ==
    /\ \A k \in DOMAIN log :
        LET e      == log[k]
            before == {j \in 1..(k - 1) : log[j].idx = e.idx}
        IN  /\ e.idx \in 0..Len(configs)
            /\ IF e.step = "return"
               THEN /\ before # {}
                    /\ \A j \in before : log[j].step # "return"
                    /\ log[k - 1].idx = e.idx
                    /\ log[k - 1].step = "rm" \/ log[k - 1].res # "ok"
               ELSE /\ Cardinality(before) < Len(StepOrder)
                    /\ e.step = StepOrder[Cardinality(before) + 1]
                    /\ \A j \in before : log[j].res = "ok"
    /\ BatchReturned => \A i \in 1..Len(configs) : Returned(i)

\* A batch that backed up the same target twice, all steps issued both times.
C8_Witness ==
    /\ BatchReturned
    /\ Len(configs) = 2
    /\ configs[1] = configs[2]
    /\ Len(IssuedSteps(1)) = Len(StepOrder)
    /\ Len(IssuedSteps(2)) = Len(StepOrder)

\* C9: a cleanup that returns Ok on an existing root has deleted exactly the
\* regular files whose name contains the subject identifier and whose
\* modification time is strictly before call time minus the retention window,
\* and returns how many it deleted.
C9_CleanupDeletesExactlyExpired ==
    (CleanupReturned /\ host_dir_exists /\ ret.ok) =>
        LET cutoff == now - config.retention_days * SecondsPerDay
            expired == {e \in host_files_before :
                           /\ e.is_file
                           /\ Contains(e.name, config.database_name)
                           /\ e.mtime < cutoff}
        IN  /\ host_files = host_files_before \ expired
            /\ ret.val = Cardinality(expired)

\* A cleanup that deleted a file and kept a matching file whose modification
\* time is exactly the cutoff.
C9_Witness ==
    /\ CleanupReturned
    /\ ret.ok
    /\ ret.val = 1
    /\ \E e \in host_files :
        /\ e.is_file
        /\ Contains(e.name, config.database_name)
        /\ e.mtime = now - config.retention_days * SecondsPerDay

\* C10: whatever a cleanup has deleted so far, at any point of the call and
\* however it ends, is a file whose name contains the subject identifier.
C10_CleanupDeletesOnlyMatching ==
    op = "cleanup_old_backups" =>
        \A e \in host_files_before \ host_files :
            Contains(e.name, config.database_name)

\* A cleanup that ended in an error after deleting a file, and left in place
\* an older file whose name does not contain the subject identifier.
C10_Witness ==
    /\ CleanupReturned
    /\ ~ret.ok
    /\ host_files # host_files_before
    /\ \E e \in host_files :
        /\ e.is_file
        /\ ~Contains(e.name, config.database_name)
        /\ e.mtime < cutoff_date

\* The cleanup that has returned came directly after a cleanup of the same
\* target that succeeded: nothing was created or changed in between.
SecondCleanupReturned ==
    /\ CleanupReturned
    /\ "config" \in DOMAIN prev_cleanup
    /\ prev_cleanup.config = config
    /\ ret.ok

Names(files) == {e.name : e \in files}

\* C12: no step of a backup, a batch, a catalog listing or a status report
\* makes an entry of the host root disappear or removes the root: every entry
\* stays as it is, except that a transfer may rewrite the file that bears the
\* artifact's name; a listing or a status report changes nothing of the root.
\* Only steps of cleanup_old_backups are exempt.
C12_OnlyCleanupRemovesFiles ==
    [][/\ op' # "cleanup_old_backups" =>
            /\ Names(host_files) \subseteq Names(host_files')
            /\ host_dir_exists => host_dir_exists'
            /\ \A e \in host_files \ host_files' :
                /\ pc = "bd_copy"
                /\ e.is_file
                /\ e.name = LastSegment(host_backup_path')
       /\ op' \in {"list_backups", "status"} =>
            /\ host_files' = host_files
            /\ host_dir_exists' = host_dir_exists]_vars

\* A backup added its artifact to a root that held entries, and they are all
\* still there.
C12_Witness ==
    /\ SingleReturned
    /\ ret.ok
    /\ host_files_before # {}
    /\ host_files_before \subseteq host_files
    /\ host_files # host_files_before

\* C13: a step that ends a cleanup while entries are still to be visited ends
\* it with a FileSystem error and deletes nothing; so does a failed reading
\* of the directory.  Throughout a cleanup nothing deleted comes back, the
\* entries not yet visited and the entry on which it failed are in place, and
\* the count is the number of entries gone.  The next cleanup visits every
\* entry that is left.
C13_PartialCleanupKeepsRest ==
    [][op' = "cleanup_old_backups" =>
        /\ host_files' \subseteq host_files
        /\ host_files' \subseteq host_files_before'
        /\ entries' \subseteq host_files'
        /\ deleted_count' = Cardinality(host_files_before' \ host_files')
        /\ (pc = "cl_loop" /\ pc' = "idle" /\ entries # {}) =>
            /\ ~ret'.ok
            /\ ret'.err.kind = "FileSystem"
            /\ host_files' = host_files
            /\ (entries \ entries') \subseteq host_files'
        /\ (pc = "idle" /\ pc' = "idle" /\ host_dir_exists) =>
            /\ ~ret'.ok
            /\ ret'.err.kind = "FileSystem"
            /\ host_files' = host_files
        /\ (pc = "idle" /\ pc' = "cl_loop") => entries' = host_files]_vars

\* A cleanup deleted one file, failed to delete another and returned the
\* error; the second file is still there.
C13_Witness ==
    /\ CleanupReturned
    /\ ~ret.ok
    /\ ret.err = FileSystemError("Failed to delete old backup")
    /\ deleted_count = 1
    /\ Cardinality(host_files) = Cardinality(host_files_before) - 1
    /\ host_files # {}

\* The clock values at which an artifact present in the host root can have
\* been named.
ArtifactTimes == {Now0 - SecondsPerDay} \cup (Now0..now)

\* name is the filename execute_backup gives an artifact of target t.
IsArtifactOf(name, t) ==
    \E x \in ArtifactTimes :
        name = BackupFilename(t.database_name, FormatTimestamp(x),
                              t.backup_format)

\* C14: a successful cleanup for a target deletes an artifact of any target,
\* its own or another, whose filename contains its subject identifier, exactly
\* when the artifact is older than its own retention window; the window of
\* the target the artifact was made for plays no part.
C14_SubstringMatchCrossesTargets ==
    (CleanupReturned /\ ret.ok /\ host_dir_exists) =>
        \A e \in host_files_before : \A t \in DatabaseConfig :
            (/\ e.is_file
             /\ IsArtifactOf(e.name, t)
             /\ Contains(e.name, config.database_name))
            => (e \notin host_files
                   <=> e.mtime < now - config.retention_days * SecondsPerDay)

\* The cleanup for subject `db` deleted an artifact of subject `db2` that is
\* younger than the retention window of `db2`.
C14_Witness ==
    /\ CleanupReturned
    /\ ret.ok
    /\ config = TargetA
    /\ \E e \in host_files_before \ host_files :
        /\ IsArtifactOf(e.name, TargetB)
        /\ e.mtime >= now - TargetB.retention_days * SecondsPerDay

\* C15: a cleanup called while the host root does not exist returns Ok(0) at
\* once, deletes nothing and does not create the root.
C15_CleanupOnMissingRoot ==
    [][(pc = "idle" /\ op' = "cleanup_old_backups" /\ ~host_dir_exists) =>
        /\ pc' = "idle"
        /\ ret' = Ok(0)
        /\ ~host_dir_exists'
        /\ host_files' = host_files
        /\ deleted_count' = 0]_vars

\* A cleanup returned 0 on a host root that does not exist.
C15_Witness ==
    /\ CleanupReturned
    /\ ~host_dir_exists
    /\ ret = Ok(0)
    /\ host_files = {}

\* The filename execute_backup built for position i: the text after the
\* output directory and its separator.
ArtifactFilename(i) ==
    LET e == CHOOSE x \in {log[k] : k \in DOMAIN log} :
                 x.idx = i /\ x.step = "cp"
    IN  SubSeq(e.path, Len(configs[i].output_path) + 2, Len(e.path))

\* C16: the host path of a backup whose transfer succeeded is the host root,
\* a separator and backup_<subject>_<timestamp>.<format> for the target's
\* subject and format and the second the name was made; its filename contains
\* the subject identifier.
C16_HostPathIsArtifactName ==
    (pc = "naming" /\ idx > 0) =>
        /\ host_backup_path =
               HostBackupDir \o <<"/">>
               \o BackupFilename(config.database_name, FormatTimestamp(now),
                                 config.backup_format)
        /\ LastSegment(host_backup_path) = ArtifactFilename(idx)
        /\ Contains(LastSegment(host_backup_path), config.database_name)
        /\ \E e \in host_files :
            /\ e.name = LastSegment(host_backup_path)
            /\ IsBackupOf(e, config.database_name)
            /\ e.name \in ListedNames(host_files, Some(config.database_name))

\* C17: two backups get the same artifact filename only if they have the same
\* subject identifier and their names were made in the same second; with the
\* same subject, the same format and the same second they do get the same
\* filename.
C17_FilenameUniquePerSubjectAndSecond ==
    (pc = "naming" /\ idx = 2) =>
        LET same_second == tick = 0
        IN  /\ ArtifactFilename(1) = ArtifactFilename(2) =>
                /\ configs[1].database_name = configs[2].database_name
                /\ same_second
            /\ (/\ configs[1].database_name = configs[2].database_name
                /\ configs[1].backup_format = configs[2].backup_format
                /\ same_second)
               => ArtifactFilename(1) = ArtifactFilename(2)

\* Two backups of one subject in one second got the same filename; the host
\* root holds one file for the two.
C17_Witness ==
    /\ pc = "naming"
    /\ idx = 2
    /\ ArtifactFilename(1) = ArtifactFilename(2)
    /\ Cardinality(host_files) = 1

ListReturned == pc = "idle" /\ op = "list_backups"

\* C18 as stated: a listing on a host root that does not exist or is empty
\* returns the empty list and never an error.
C18_ListOnEmptyRootNeverFails ==
    (ListReturned /\ (~host_dir_exists \/ host_files = {})) => ret = Ok(<<>>)

\* C18 amended: a listing, with or without a filter, leaves the host root as
\* it is; when the root does not exist it returns the empty list; when the
\* root exists and is empty it returns the empty list, or a FileSystem error
\* if the directory cannot be read.
C18_ListOnEmptyRoot ==
    [][op' = "list_backups" =>
        /\ host_dir_exists' = host_dir_exists
        /\ host_files' = host_files
        /\ ~host_dir_exists => ret' = Ok(<<>>)
        /\ (host_dir_exists /\ host_files = {}) =>
            \/ ret' = Ok(<<>>)
            \/ ret' = Err(FileSystemError("Failed to read backup directory"))
      ]_vars

\* A filtered listing returned the empty list on a host root that does not
\* exist, and the root still does not exist.
C18_Witness ==
    /\ ListReturned
    /\ list_filter.some
    /\ ~host_dir_exists
    /\ ret = Ok(<<>>)

\* C19: a listing that succeeds on an existing host root returns the names of
\* the root's regular files, each once, only those that contain the filter
\* when there is one, in strictly ascending byte order.
C19_ListIsSortedFilteredFiles ==
    (ListReturned /\ host_dir_exists /\ ret.ok) =>
        /\ {ret.val[k] : k \in DOMAIN ret.val} =
               {e.name : e \in {f \in host_files :
                   /\ f.is_file
                   /\ list_filter.some => Contains(f.name, list_filter.val)}}
        /\ \A j, k \in DOMAIN ret.val :
               j < k => StrLess(ret.val[j], ret.val[k])

\* A listing filtered on a subject returned two names in order and left out a
\* directory whose name contains the subject.
C19_Witness ==
    /\ ListReturned
    /\ host_dir_exists
    /\ ret.ok
    /\ list_filter.some
    /\ Len(ret.val) = 2
    /\ \E e \in host_files :
        ~e.is_file /\ Contains(e.name, list_filter.val)

\* C20: in a batch the steps of one target are issued together: the record
\* starts with the first target, moves from one target to the next only right
\* after the return of the former's backup, nothing is issued for a target
\* after its backup returned, and the target in hand is the one of the last
\* step, or the next one when its first step is still to come.
C20_TargetsOneAfterAnother ==
    (op = "backup_all_databases" /\ log # <<>>) =>
        /\ log[1].idx = 1
        /\ \A k \in 2..Len(log) :
            IF log[k - 1].step = "return"
            THEN log[k].idx = log[k - 1].idx + 1
            ELSE log[k].idx = log[k - 1].idx
        /\ \/ log[Len(log)].idx = idx
           \/ /\ pc = "bd_ensure"
              /\ log[Len(log)].step = "return"
              /\ log[Len(log)].idx = idx - 1

\* The second target of a batch is being transferred after the first one
\* went through all its steps and returned.
C20_Witness ==
    /\ op = "backup_all_databases"
    /\ idx = 2
    /\ pc = "bd_copy"
    /\ Returned(1)
    /\ ReturnOf(1).res = "ok"

\* A target descriptor with every checked field non-empty and a format that
\* is zip or dump.
WellFormed(db) ==
    /\ db.name # <<>>
    /\ db.database_name # <<>>
    /\ db.url # <<>>
    /\ db.container_name # <<>>
    /\ db.master_password # <<>>
    /\ db.backup_format \in {<<"z", "i", "p">>, <<"d", "u", "m", "p">>}

\* The checked fields of a target descriptor that are not as required.
OffendingFields(db) ==
    {f \in {"name", "database_name", "url", "container_name",
            "master_password"} : db[f] = <<>>}
    \cup (IF db.backup_format \in {<<"z", "i", "p">>, <<"d", "u", "m", "p">>}
          THEN {} ELSE {"backup_format"})

\* The field an error message of Config::validate is about.
FieldOfMessage(msg) ==
    CASE msg = "name cannot be empty" -> "name"
      [] msg = "database_name cannot be empty" -> "database_name"
      [] msg = "url cannot be empty" -> "url"
      [] msg = "container_name cannot be empty" -> "container_name"
      [] msg = "master_password cannot be empty" -> "master_password"
      [] msg = "backup_format must be 'zip' or 'dump'" -> "backup_format"
      [] OTHER -> "none"

\* C22: validation accepts a target list exactly when the list is non-empty
\* and every target has a non-empty name, database_name, url, container_name
\* and master_password and a format that is zip or dump; any other list is
\* rejected with a configuration error, and for a non-empty list that error
\* is about the first offending target in list order and about a field of it
\* that offends.
C22_ValidateAcceptsWellFormedLists ==
    pc = "validated" =>
        LET bad   == {k \in DOMAIN configs : ~WellFormed(configs[k])}
            first == CHOOSE k \in bad : \A j \in bad : k <= j
        IN  /\ ret.ok <=> (configs # <<>> /\ bad = {})
            /\ ~ret.ok => ret.err.kind = "Config"
            /\ configs = <<>> => ret = Err(ConfigError("No databases configured"))
            /\ (configs # <<>> /\ bad # {}) =>
                   /\ "index" \in DOMAIN ret.err
                   /\ ret.err.index = first - 1
                   /\ FieldOfMessage(ret.err.msg)
                          \in OffendingFields(configs[first])

\* A list whose first target is well formed and whose second is not has been
\* rejected.
C22_Witness ==
    /\ pc = "validated"
    /\ Len(configs) = 2
    /\ WellFormed(configs[1])
    /\ ~WellFormed(configs[2])
    /\ ~ret.ok
    /\ ret.err.index = 1

\* The positions of the loaded configuration whose target has exactly the
\* name given on the command line.
NamedTargets ==
    {k \in DOMAIN run_config : run_config[k].name = cli.client.val}

\* C21: looking a target up by name gives a target only on an exact,
\* case-sensitive match of its name.  A Backup or Clean command that names a
\* client no configured target has exactly as its name never calls the
\* BackupManager, issues no step and leaves the host root as it was, and
\* once the configuration is loaded it ends with the configuration error
\* "Client not found"; a command that does call the BackupManager calls it
\* for the first target of that very name.
C21_UnknownClientDoesNothing ==
    (cli.command \in {"Backup", "Clean"} /\ cli.client.some) =>
        /\ NamedTargets = {} =>
               /\ op = "none"
               /\ config = NoConfig
               /\ log = <<>>
               /\ now = Now0
               /\ host_files = host_files_before
        /\ (NamedTargets = {} /\ run_config # <<>> /\ pc = "exited") =>
               /\ run_result = Err(ConfigError("Client not found"))
               /\ ExitCode(run_result) = 1
        /\ op # "none" =>
               /\ NamedTargets # {}
               /\ config = run_config[CHOOSE k \in NamedTargets :
                                         \A j \in NamedTargets : k <= j]
               /\ config.name = cli.client.val
        /\ (NamedTargets # {} /\ pc = "exited") =>
               op = (IF cli.command = "Backup" THEN "backup_database"
                     ELSE "cleanup_old_backups")

\* A backup of client "a" was asked for while the configured targets are
\* named "A" and "B": the process has exited with the configuration error.
C21_Witness ==
    /\ pc = "exited"
    /\ cli = CliCommand("Backup", Some(<<"a">>))
    /\ run_config = Databases
    /\ ~run_result.ok
    /\ run_result.err.kind = "Config"
    /\ op = "none"

\* C23: a Backup command for all targets whose batch has partial failures
\* still returns success: however many of the targets failed, run returns
\* Ok and the process exits with status zero.
C23_BackupAllExitsZero ==
    (pc = "exited" /\ cli = CliCommand("Backup", None)
        /\ op = "backup_all_databases") =>
        /\ Len(results) + Len(errors) = Len(run_config)
        /\ run_result = Ok("unit")
        /\ ExitCode(run_result) = 0

\* A batch over two targets in which one backup failed and one succeeded
\* has ended, and the process has exited with status zero.
C23_Witness ==
    /\ pc = "exited"
    /\ cli = CliCommand("Backup", None)
    /\ Len(errors) = 1
    /\ Len(results) = 1
    /\ ExitCode(run_result) = 0

\* C24 as stated: in the Clean command for all targets a filesystem error
\* while cleaning one target does not abort the loop, so that when the
\* process has exited the cleanup of every configured target has run.
C24_CleanAllVisitsEveryTarget ==
    (pc = "exited" /\ cli = CliCommand("Clean", None)
        /\ run_config # <<>>) =>
        run_idx = Len(run_config)

\* C25: a single-target Backup or Clean whose BackupManager call fails
\* returns that error from run and the process exits with a non-zero status;
\* the process exits with status zero only if the call succeeded.
C25_SingleTargetExitStatus ==
    (pc = "exited" /\ cli.command \in {"Backup", "Clean"}
        /\ cli.client.some /\ op # "none") =>
        /\ ret.ok <=> ExitCode(run_result) = 0
        /\ ~ret.ok => run_result = Err(ret.err)
        /\ (cli.command = "Backup" /\ ret.ok) =>
               \E e \in host_files :
                   /\ e.is_file
                   /\ JoinPath(HostBackupDir, e.name) = ret.val

\* The backup of the one named target has failed on a command inside the
\* container and the process has exited with status 1.
C25_Witness ==
    /\ pc = "exited"
    /\ cli = CliCommand("Backup", Some(<<"B">>))
    /\ op = "backup_database"
    /\ ~ret.ok
    /\ ret.err.kind = "Docker"
    /\ ExitCode(run_result) = 1

QueryError(res) ==
    IF res = "spawn_err" THEN DockerError("Failed to check container status")
    ELSE DockerError("Docker command failed")

C28_PathOnlyAfterVerifiedSteps ==
    /\ \A k \in DOMAIN log :
        LET e == log[k]
        IN  /\ e.step \in {"mkdir", "curl", "test", "cp"} =>
                   /\ k > 1
                   /\ log[k - 1].idx = e.idx
                   /\ log[k - 1].container = e.container
                   /\ log[k - 1].res = "ok"
                   /\ log[k - 1].step =
                          (CASE e.step = "mkdir" -> "ps"
                             [] e.step = "curl" -> "mkdir"
                             [] e.step = "test" -> "curl"
                             [] e.step = "cp" -> "test")
            /\ e.step = "test" => log[k - 1].path = e.path
            /\ e.step = "cp" =>
                   e.path = HostBackupPath(HostBackupDir, log[k - 1].path)
            /\ (e.step \in {"ps", "mkdir", "curl", "test"} /\ e.res # "ok") =>
                   /\ k < Len(log)
                   /\ log[k + 1].step = "return"
                   /\ log[k + 1].idx = e.idx
                   /\ log[k + 1].res = "Docker"
    /\ pc = "bd_copy" =>
           /\ Len(log) >= 5
           /\ log[Len(log)].step = "test"
           /\ log[Len(log)].path = container_backup_path
           /\ log[Len(log) - 1].path = container_backup_path
           /\ log[Len(log) - 3].step = "ps"

\* execute_backup has just returned the path of the artifact it verified.
C28_Witness ==
    /\ pc = "bd_copy"
    /\ log[Len(log)].step = "test"
    /\ log[Len(log)].res = "ok"
    /\ log[Len(log)].path = container_backup_path

\* C29: a backup ensures the host root before any runtime call.  On a root
\* that exists the step changes nothing and cannot fail; on an absent root
\* it creates the root, or fails with the filesystem error and the backup
\* returns without any runtime call.  While runtime calls are being made,
\* and after every backup that got past the step, the root exists.
C29_RootEnsuredFirst ==
    [][/\ pc = "bd_ensure" =>
            /\ host_dir_exists =>
                   /\ pc' = "eb_ps"
                   /\ UNCHANGED <<hostVars, bd_result>>
                   /\ log' = Append(log,
                                 LogEntry("ensure_dir", HostBackupDir, "ok"))
            /\ ~host_dir_exists =>
                   \/ /\ pc' = "eb_ps"
                      /\ host_dir_exists'
                      /\ host_files' = {}
                      /\ UNCHANGED bd_result
                   \/ /\ pc' = "bd_ret"
                      /\ UNCHANGED hostVars
                      /\ bd_result' = Err(FileSystemError(
                                         "Failed to create backup directory"))
                      /\ Len(log') = Len(log) + 2
                      /\ log'[Len(log')].step = "return"
                      /\ log'[Len(log')].res = "FileSystem"
       /\ pc \in {"eb_ps", "eb_mkdir", "eb_curl", "eb_test", "bd_copy",
                  "bd_cleanup"} =>
            /\ host_dir_exists
            /\ host_dir_exists'
            /\ \E k \in DOMAIN log :
                   /\ log[k].idx = idx
                   /\ log[k].step = "ensure_dir"
                   /\ log[k].res = "ok"
       /\ \A k \in DOMAIN log :
            /\ (log[k].step = "ensure_dir" /\ log[k].res = "ok") =>
                   host_dir_exists
            /\ log[k].step \in {"ps", "mkdir", "curl", "test", "cp", "rm"} =>
                   \E j \in 1..(k - 1) :
                       /\ log[j].idx = log[k].idx
                       /\ log[j].step = "ensure_dir"
                       /\ log[j].res = "ok"
      ]_vars

\* A backup that got past the first step has failed on a command inside the
\* container, and the host root exists.
C29_Witness ==
    /\ pc = "bd_ret"
    /\ log[1].step = "ensure_dir"
    /\ log[1].res = "ok"
    /\ ~bd_result.ok
    /\ bd_result.err.kind = "Docker"
    /\ host_dir_exists

\* C30 as stated: the liveness query answers running exactly when a
\* container whose name is the target's container name is running.
C30_RunningOnlyIfNamedContainerRuns ==
    \A k \in DOMAIN log :
        log[k].step = "ps" =>
            /\ log[k].res = "ok" => log[k].container \in running
            /\ log[k].res = "not_running" => log[k].container \notin running

\* C31 as stated: after a batch backup the host paths of the entries of the
\* successes list are pairwise distinct.
C31_BatchHostPathsDistinct ==
    BatchReturned =>
        \A i, j \in DOMAIN ret.val :
            i < j => ret.val[i][2] # ret.val[j][2]

\* The transfer recorded at position j of the log succeeded, was made by the
\* backup at position i of the batch, wrote host path p, and copied the
\* artifact whose existence the step before it had verified.
CopiedTo(j, i, p) ==
    /\ j > 1
    /\ log[j].step = "cp"
    /\ log[j].res = "ok"
    /\ log[j].idx = i
    /\ log[j].path = p
    /\ log[j - 1].step = "test"
    /\ log[j - 1].res = "ok"
    /\ log[j - 1].idx = i
    /\ HostBackupPath(HostBackupDir, log[j - 1].path) = p

\* C32: backup_database returns a host path only if, during that same call,
\* the copy of the verified container artifact to exactly that path
\* succeeded; so every (name, path) of the successes of a batch has a
\* successful transfer to that path made in this batch by the backup of a
\* target of that name, and that path is a file of the host root.
C32_PathOnlyAfterOwnCopy ==
    /\ \A k \in DOMAIN log :
        (log[k].step = "return" /\ log[k].res = "ok") =>
            \E j \in 1..(k - 1) :
                /\ CopiedTo(j, log[k].idx, log[k].path)
                /\ log[j].container = log[k].container
    /\ (pc = "bd_ret" /\ bd_result.ok) =>
           /\ bd_result.val = host_backup_path
           /\ \E j \in DOMAIN log : CopiedTo(j, idx, bd_result.val)
    /\ (SingleReturned /\ ret.ok) =>
           \E j \in DOMAIN log : CopiedTo(j, 0, ret.val)
    /\ BatchReturned =>
           \A n \in DOMAIN ret.val :
               /\ \E j \in DOMAIN log :
                      /\ CopiedTo(j, log[j].idx, ret.val[n][2])
                      /\ log[j].idx \in DOMAIN configs
                      /\ configs[log[j].idx].name = ret.val[n][1]
               /\ \E e \in host_files :
                      /\ e.is_file
                      /\ JoinPath(HostBackupDir, e.name) = ret.val[n][2]

\* A batch of two different targets has returned one success: the backup of
\* the other target failed at its transfer.
C32_Witness ==
    /\ BatchReturned
    /\ Len(configs) = 2
    /\ configs[1] # configs[2]
    /\ Len(ret.val) = 1
    /\ \E k \in DOMAIN log : log[k].step = "cp" /\ log[k].res = "fail"

\* C33: backup_all_databases returns Ok for every target list and every
\* combination of step outcomes, the empty list and the batch in which
\* every target fails included; what run makes of that value is Ok(()), so
\* the Backup command for all targets exits with status zero even when no
\* backup succeeded.
C33_BatchAlwaysReturnsOk ==
    BatchReturned =>
        /\ ret.ok
        /\ "err" \notin DOMAIN ret
        /\ Len(errors) = Len(configs) => ret = Ok(<<>>)
        /\ BackupAllResult(ret) = Ok("unit")
        /\ ExitCode(BackupAllResult(ret)) = 0

\* A batch of two targets of which none succeeded has returned.
C33_Witness ==
    /\ BatchReturned
    /\ Len(configs) = 2
    /\ Len(errors) = 2
    /\ ret = Ok(<<>>)
    /\ ExitCode(BackupAllResult(ret)) = 0

====
